---------------------------- MODULE Spec2Model ----------------------------
(***************************************************************************)
(* Model of the flow-chat conversation engine (src/routers/flow.py), of   *)
(* the template history manager                                            *)
(* (src/services/template_history_manager.py) and of the audio and         *)
(* classification helpers of src/services/openai_service.py.               *)
(*                                                                         *)
(* The specifications of this module:                                      *)
(*   Spec           the session machine behind POST /flow-chat and the     *)
(*                  session GET/DELETE endpoints;                          *)
(*   SpecRoundTrip  the session machine driven by one client;              *)
(*   SpecSelect     TemplateHistoryManager.select_diverse_template;        *)
(*   SpecPool       repeated selections from one fixed pool;               *)
(*   SpecCallers    several sessions calling the manager;                  *)
(*   SpecAudio      OpenAIService._combine_audio_files;                    *)
(*   SpecLocate     OpenAIService._find_audio_url_for_text;                *)
(*   SpecClassify   OpenAIService._analyze_user_message_with_openai;        *)
(*   SpecPipeline   scripts/generate_audio.py and the response pipelines    *)
(*                  that look its fragments up.                             *)
(***************************************************************************)
EXTENDS Integers, Sequences, FiniteSets, TLC

(***************************************************************************)
(* Bounds of the model.                                                    *)
(***************************************************************************)
\* number of session ids uuid4 hands out in a run
MaxSessions == 2
\* number of requests served in a run
MaxClock == 9
\* number of requests that may be in flight (past their first statement
\* and not yet answered) at once
MaxTasks == 2

\* max_history_size the TemplateHistoryManager is constructed with
HistorySize == 2
\* number of candidates in one select_diverse_template call
MaxTemplates == 3
\* number of recorded selections between two reset_history calls
MaxSelections == 3

\* number of URLs in one _combine_audio_files call
MaxUrls == 3
\* number of _combine_audio_files calls in a run
MaxCombines == 1
\* largest max_history_size of a manager that serves one fixed pool
PoolHistorySize == 3
\* number of selections from one fixed pool in a run
MaxPoolSelections == 9
\* number of sessions that call select_diverse_template
MaxCallers == 2
\* number of select_diverse_template calls the sessions make in a run
MaxCalls == 3
\* number of _find_audio_url_for_text calls in a run
MaxLocates == 2
\* number of _analyze_user_message_with_openai calls in a run
MaxClassifications == 1
\* number of texts whose audio a run of the generation script fails to
\* produce
MaxFailures == 2

(***************************************************************************)
(* Program constants.                                                      *)
(***************************************************************************)
\* "if session.user_input_count >= 7"
MaxInputs == 7
\* AudioSegment.silent(duration=500)
GapMs == 500

STARTER == "starter"
PARAPHRASE == "paraphrase"
FINISHER == "finisher"

\* uuid4 values: 1..MaxSessions are handed out in order, 0 is an id no
\* session ever had
SessionIds == 1..MaxSessions
UnknownId == 0

\* request.user_input: missing/empty, or some text
UserInputs == {"", "u1"}
\* request.emotion: missing/empty, or some emotion
Emotions == {"", "happy"}

\* what the JSON-mode completion of _handle_voice_input can come back as
JsonOutcomes == {"raises", "unparseable", "valid", "nofields", "nullresponse"}
\* what the plain completion of _generate_openai_response_with_tts can come
\* back as
TextOutcomes == {"raises", "empty", "text"}
\* what text_to_speech can do
TTSOutcomes == {"ok", "raises"}

NoneText == "<None>"
NoAudio == "null"
AudioUrl == "url"

VARIABLES
    sessions,   \* the keys of the module-level dict `sessions`
    sess,       \* the ConversationSession object of every id handed out
    nextId,     \* how many ids uuid4 has handed out
    clock,      \* requests served so far
    updated,    \* the session whose updated_at the last request set to
                \* datetime.now() (UnknownId: it set none)
    tasks,      \* requests in flight, each at an await
    stats,      \* one entry per _update_daily_stats call
    resp        \* what the last step returned to its client, if anything

flowVars == <<sessions, sess, nextId, clock, updated, tasks, stats, resp>>

VARIABLES
    recent,       \* the five deques recent_<category>s, oldest first
    usage_count,  \* usage_count: template -> times selected
    last,         \* last_<category>, NoTemplate for None
    returned,     \* what the latest call for the category returned
    call,         \* the latest select_diverse_template call
    max_history_size   \* max_history_size, the maxlen of the deques

selectVars == <<recent, usage_count, last, returned, call, max_history_size>>

VARIABLES
    r2,        \* the combined files _combine_audio_files has uploaded
    combined   \* the latest _combine_audio_files call

audioVars == <<r2, combined>>

VARIABLES
    metadata_file,     \* assets/conversation_starters/audio_metadata.json
    audio_metadata,    \* OpenAIService._audio_metadata
    metadata_loaded,   \* OpenAIService._metadata_loaded
    located            \* the latest _find_audio_url_for_text call

locateVars == <<metadata_file, audio_metadata, metadata_loaded, located>>

VARIABLES
    classified         \* the latest _analyze_user_message_with_openai call

classifyVars == <<classified>>

VARIABLES
    heard              \* the voice_input responses one client has received

clientVars == <<heard>>

VARIABLES
    pool,              \* the template list one caller passes on every call
    idle               \* template -> selections since it was returned last

poolVars == <<pool, idle>>

VARIABLES
    inflight,          \* caller -> its select_diverse_template call
    finished          \* category -> selections that have returned

callerVars == <<inflight, finished>>

VARIABLES
    generated_metadata,  \* the index save_metadata wrote
    fragments,           \* the fragments the generation script produced
    pipeline             \* the latest call of a response pipeline

pipelineVars == <<generated_metadata, fragments, pipeline>>

vars ==
    <<flowVars, selectVars, audioVars, locateVars, classifyVars, clientVars,
      poolVars, callerVars, pipelineVars>>

\* what the session machine and its client leave alone
notClientVars ==
    <<selectVars, audioVars, locateVars, classifyVars, poolVars, callerVars,
      pipelineVars>>
\* what the session machine leaves alone
notFlowVars == <<notClientVars, clientVars>>
\* what the template history manager leaves alone
notSelectVars ==
    <<flowVars, audioVars, locateVars, classifyVars, clientVars,
      poolVars, callerVars, pipelineVars>>
\* what the audio assembler leaves alone
notAudioVars ==
    <<flowVars, selectVars, locateVars, classifyVars, clientVars,
      poolVars, callerVars, pipelineVars>>
\* what the audio locator leaves alone
notLocateVars ==
    <<flowVars, selectVars, audioVars, classifyVars, clientVars,
      poolVars, callerVars, pipelineVars>>
\* what the selections from one fixed pool leave alone
notPoolVars ==
    <<flowVars, audioVars, locateVars, classifyVars, clientVars, callerVars,
      pipelineVars>>
\* what the concurrent callers of the manager leave alone
notCallerVars ==
    <<flowVars, audioVars, locateVars, classifyVars, clientVars, poolVars,
      pipelineVars>>
\* what the classifier leaves alone
notClassifyVars ==
    <<flowVars, selectVars, audioVars, locateVars, clientVars,
      poolVars, callerVars, pipelineVars>>
\* what the generation script and the response pipelines leave alone
notPipelineVars ==
    <<flowVars, selectVars, audioVars, locateVars, classifyVars, clientVars,
      poolVars, callerVars>>

(***************************************************************************)
(* ConversationSession                                                     *)
(***************************************************************************)
NewSessionCounted ==
    [ stage |-> STARTER,
      learned_expressions |-> <<>>,
      user_answers |-> <<>>,
      user_input_count |-> 1,
      conversation_turns |-> <<>>,
      completion_status |-> "in_progress" ]

NewSession ==
    [ stage |-> STARTER,
      learned_expressions |-> <<>>,
      user_answers |-> <<>>,
      user_input_count |-> 0,
      conversation_turns |-> <<>>,
      completion_status |-> "in_progress" ]

\* the entry of `sess` for an id not handed out yet
NoSession ==
    [ stage |-> "none",
      learned_expressions |-> <<>>,
      user_answers |-> <<>>,
      user_input_count |-> 0,
      conversation_turns |-> <<>>,
      completion_status |-> "none" ]

(***************************************************************************)
(* Responses                                                               *)
(***************************************************************************)
NoResp ==
    [ action |-> "none", sid |-> UnknownId, status |-> 0, detail |-> "",
      stage |-> "none", response_text |-> "", audio_url |-> NoAudio,
      target_words |-> <<>>, completed |-> FALSE ]

\* raise HTTPException(status_code=status, detail=detail)
HttpError(action, sid, status, detail) ==
    [ NoResp EXCEPT !.action = action, !.sid = sid, !.status = status,
                    !.detail = detail ]

\* FlowChatResponse(...)
FlowChatResponse(action, sid, stage, text, audio, words, completed) ==
    [ action |-> action, sid |-> sid, status |-> 200, detail |-> "",
      stage |-> stage, response_text |-> text, audio_url |-> audio,
      target_words |-> words, completed |-> completed ]

\* except Exception: raise HTTPException(status_code=500, ...)
InternalError(action, sid) ==
    HttpError(action, sid, 500, "Internal server error")

SessionNotFound(action, sid) ==
    HttpError(action, sid, 404, "Session not found")


(***************************************************************************)
(* Collaborators: the chat completion and text_to_speech.                  *)
(***************************************************************************)
LLMText == "llm text"
FallbackText == "fallback text"
LLMExpressions == <<"w1", "w2">>
BasicExpressions == <<"I feel", "when">>

\* Whether awaiting the call hands the event loop to another request.
\* get_chat_completion and text_to_speech are `async def` but call the
\* synchronous openai.OpenAI client, boto3 and open(): they never await
\* anything that is not ready, so the awaiting handler keeps the loop.
SuspendsYielding(fn) == TRUE

Suspends(fn) == FALSE

\* The try/except of _handle_voice_input around the JSON-mode completion:
\* the paraphrase text and the learned expressions it leaves.
ParseUnified(out) ==
    CASE out = "valid" ->
            [text |-> LLMText, learned |-> LLMExpressions]
      [] out = "nofields" ->
            \* parsed_response.get("response", ""), .get("learned_expressions", [])
            [text |-> "", learned |-> <<>>]
      [] out = "nullresponse" ->
            \* {"response": null}: .get returns None
            [text |-> NoneText, learned |-> <<>>]
      [] OTHER ->
            \* except (json.JSONDecodeError, Exception): fallback
            [text |-> FallbackText, learned |-> BasicExpressions]

\* The text _generate_openai_response_with_tts returns.
GeneratedText(out) ==
    CASE out = "text" -> LLMText
      [] out = "empty" -> ""      \* content.strip() of a blank completion
      [] OTHER -> FallbackText    \* except Exception: emergency fallback

\* audio_url after the "if is_tts_enabled: try ... except" blocks.
TTSAudio(enabled, out) ==
    IF enabled /\ out = "ok" THEN AudioUrl ELSE NoAudio

(***************************************************************************)
(* Session updates                                                         *)
(***************************************************************************)
SessionExistsEver(sid) == sid \in 1..nextId

\* `session_id in sessions`
SessionExists(sid) == sid \in sessions

\* session.updated_at = datetime.now(), once the session is found
Touched(sid) == IF SessionExists(sid) THEN sid ELSE UnknownId

\* the restart, had it left the answers of the previous round in place
RestartSessionKeepingAnswers(s) ==
    [s EXCEPT !.stage = STARTER,
              !.learned_expressions = <<>>,
              !.user_input_count = 0]

\* FlowAction.RESTART: the four assignments
RestartSession(s) ==
    [s EXCEPT !.stage = STARTER,
              !.user_answers = <<>>,
              !.learned_expressions = <<>>,
              !.user_input_count = 0]

\* session.user_input_count += 1; session.user_answers.append(user_input)
AcceptInput(s, u) ==
    [s EXCEPT !.user_input_count = @ + 1,
              !.user_answers = Append(@, u)]

\* the completion test, had it let the seventh input through
ReachedMaxLate(s) == s.user_input_count > MaxInputs

ReachedMax(s) == s.user_input_count >= MaxInputs

\* "if session.stage == STARTER or session.stage == PARAPHRASE"
ExpectsVoiceInput(s) == s.stage \in {STARTER, PARAPHRASE}

\* ConversationTurn(...) validates its fields: ai_response must be a str
TurnIsValid(text) == text # NoneText

\* _log_conversation_turn: append the turn (stage is read when logging)
LogTurn(s, u) ==
    [s EXCEPT !.conversation_turns =
                  Append(@, [user_input |-> u, stage |-> s.stage])]

\* _save_conversation_session_summary: the status it stores
SaveSummary(s, status) == [s EXCEPT !.completion_status = status]

\* _update_daily_stats: total_sessions += 1 and the per-status counter
UpdateDailyStats(st, sid, status) ==
    Append(st, [session_id |-> sid, status |-> status])

NextStageSessionResetting(s) == [s EXCEPT !.user_input_count = 0]

\* next_stage, had it used up the expressions it shows
NextStageSessionClearing(s) == [s EXCEPT !.learned_expressions = <<>>]

\* the session after _handle_next_stage
NextStageSession(s) ==
    IF s.stage = PARAPHRASE THEN [s EXCEPT !.stage = PARAPHRASE] ELSE s

(***************************************************************************)
(* The event loop: one handler runs at a time and gives the loop away only *)
(* at an await that suspends.                                              *)
(***************************************************************************)
LoopFree == \A t \in tasks : t.susp

Runnable(t) == ~t.susp \/ LoopFree

\* A request in flight: the handler's locals (session, user_input,
\* request.is_tts_enabled, the text it will answer), the branch it took, the
\* call it awaits, and `turn`, the count it logged as FLOW_USER_INPUT_COUNT.
Task(sid, path, pc, u, tts, text, turn) ==
    [ sid |-> sid, path |-> path, pc |-> pc, input |-> u, tts |-> tts,
      text |-> text, turn |-> turn, susp |-> Suspends(pc) ]

CanServe == LoopFree /\ clock < MaxClock

(***************************************************************************)
(* Init                                                                    *)
(***************************************************************************)
FlowInit ==
    /\ sessions = {}
    /\ sess = [i \in SessionIds |-> NoSession]
    /\ nextId = 0
    /\ clock = 0
    /\ updated = UnknownId
    /\ tasks = {}
    /\ stats = <<>>
    /\ resp = NoResp

(***************************************************************************)
(* POST /flow-chat, action pick_emotion                                    *)
(*   Nothing is written to the session after the awaits of                 *)
(*   _generate_openai_response_with_tts, so the handler is one step.       *)
(***************************************************************************)
PickEmotion(emotion, tts, llm, speech) ==
    /\ CanServe
    /\ clock' = clock + 1
    /\ updated' = IF emotion = "" THEN UnknownId ELSE nextId + 1
    /\ IF emotion = ""
       THEN /\ resp' = HttpError("pick_emotion", UnknownId, 400,
                                 "Emotion is required for pick_emotion action")
            /\ UNCHANGED <<sessions, sess, nextId>>
       ELSE /\ nextId < MaxSessions
            /\ LET sid == nextId + 1 IN
               /\ nextId' = sid
               /\ sess' = [sess EXCEPT ![sid] = NewSession]
               /\ sessions' = sessions \cup {sid}
               /\ resp' = FlowChatResponse("pick_emotion", sid, STARTER,
                                           GeneratedText(llm),
                                           TTSAudio(tts, speech), <<>>, FALSE)
    /\ UNCHANGED <<tasks, stats>>

(***************************************************************************)
(* POST /flow-chat, action next_stage: _handle_next_stage                  *)
(***************************************************************************)
NextStage(sid, tts, speech) ==
    /\ CanServe
    /\ clock' = clock + 1
    /\ updated' = Touched(sid)
    /\ IF ~SessionExists(sid)
       THEN /\ resp' = SessionNotFound("next_stage", sid)
            /\ UNCHANGED sess
       ELSE LET s == sess[sid] IN
            /\ sess' = [sess EXCEPT ![sid] = NextStageSession(s)]
            /\ resp' =
                 IF s.stage = STARTER
                 THEN FlowChatResponse("next_stage", sid, STARTER,
                          "tell me", TTSAudio(tts, speech), <<>>, FALSE)
                 ELSE IF s.stage = PARAPHRASE
                 THEN FlowChatResponse("next_stage", sid, PARAPHRASE,
                          "repeat", TTSAudio(tts, speech),
                          s.learned_expressions, FALSE)
                 ELSE HttpError("next_stage", sid, 400,
                          "Cannot proceed to next stage from current stage")
    /\ UNCHANGED <<sessions, nextId, tasks, stats>>

(***************************************************************************)
(* POST /flow-chat, action restart                                         *)
(*   ConversationStage has no member RESTART: evaluating                   *)
(*   ConversationStage.RESTART for the call of                             *)
(*   _generate_openai_response_with_tts raises AttributeError after the    *)
(*   session was reset, and flow_chat turns it into a 500.                 *)
(***************************************************************************)
RestartResponse(sid) == InternalError("restart", sid)

Restart(sid) ==
    /\ CanServe
    /\ clock' = clock + 1
    /\ updated' = Touched(sid)
    /\ IF ~SessionExists(sid)
       THEN /\ resp' = SessionNotFound("restart", sid)
            /\ UNCHANGED sess
       ELSE /\ sess' = [sess EXCEPT
                          ![sid] = RestartSession(sess[sid])]
            /\ resp' = RestartResponse(sid)
    /\ UNCHANGED <<sessions, nextId, tasks, stats>>

(***************************************************************************)
(* POST /flow-chat, action voice_input: flow_chat and the part of          *)
(* _handle_voice_input before its first await                              *)
(***************************************************************************)
VoiceInput(sid, u, tts) ==
    /\ CanServe
    /\ Cardinality(tasks) < MaxTasks
    /\ clock' = clock + 1
    /\ updated' = Touched(sid)
    /\ IF ~SessionExists(sid)
       THEN /\ resp' = SessionNotFound("voice_input", sid)
            /\ UNCHANGED <<sess, tasks>>
       ELSE IF u = ""
       THEN /\ sess' = [sess EXCEPT ![sid] = sess[sid]]
            /\ resp' = HttpError("voice_input", sid, 400,
                           "User input is required for voice_input action")
            /\ UNCHANGED tasks
       ELSE LET s == AcceptInput(sess[sid], u) IN
            IF ReachedMax(s)
            THEN /\ sess' = [sess EXCEPT ![sid] = [s EXCEPT !.stage = FINISHER]]
                 /\ tasks' = tasks \cup
                       {Task(sid, "finisher", "get_chat_completion", u, tts, "",
                             s.user_input_count)}
                 /\ resp' = NoResp
            ELSE IF ExpectsVoiceInput(s)
            THEN /\ sess' = [sess EXCEPT ![sid] = [s EXCEPT !.stage = PARAPHRASE]]
                 /\ tasks' = tasks \cup
                       {Task(sid, "paraphrase", "get_chat_completion", u, tts, "",
                             s.user_input_count)}
                 /\ resp' = NoResp
            ELSE /\ sess' = [sess EXCEPT ![sid] = s]
                 /\ resp' = HttpError("voice_input", sid, 400,
                                "Voice input not expected at current stage")
                 /\ UNCHANGED tasks
    /\ UNCHANGED <<sessions, nextId, stats>>

\* the end of the FINISHER branch: log the turn, save the summary, answer
FinishConversation(t, text, audio) ==
    LET s == sess[t.sid] IN
    /\ sess' = [sess EXCEPT
                  ![t.sid] = SaveSummary(LogTurn(s, t.input), "completed")]
    /\ stats' = UpdateDailyStats(stats, t.sid, "completed")
    /\ resp' = FlowChatResponse("voice_input", t.sid, FINISHER, text, audio,
                                <<>>, TRUE)

\* the end of the PARAPHRASE branch: answer with the session's expressions
AnswerParaphrase(t, text, audio, s) ==
    resp' = FlowChatResponse("voice_input", t.sid, PARAPHRASE, text, audio,
                             s.learned_expressions, FALSE)

\* _handle_voice_input, PARAPHRASE branch, from the return of the JSON-mode
\* completion to the text_to_speech call (or to the response without TTS)
UnifiedReturns(t, out) ==
    /\ t \in tasks /\ Runnable(t)
    /\ t.path = "paraphrase" /\ t.pc = "get_chat_completion"
    /\ LET parsed == ParseUnified(out)
           s == [sess[t.sid] EXCEPT !.learned_expressions = parsed.learned]
       IN IF ~TurnIsValid(parsed.text)
          THEN \* pydantic ValidationError out of _log_conversation_turn
               /\ sess' = [sess EXCEPT ![t.sid] = s]
               /\ tasks' = tasks \ {t}
               /\ resp' = InternalError("voice_input", t.sid)
          ELSE /\ sess' = [sess EXCEPT ![t.sid] = LogTurn(s, t.input)]
               /\ IF t.tts
                  THEN /\ tasks' = (tasks \ {t}) \cup
                             {Task(t.sid, t.path, "text_to_speech", t.input,
                                   t.tts, parsed.text, t.turn)}
                       /\ resp' = NoResp
                  ELSE /\ tasks' = tasks \ {t}
                       /\ AnswerParaphrase(t, parsed.text, NoAudio, s)
    /\ UNCHANGED <<sessions, nextId, clock, updated, stats>>

\* _handle_voice_input, FINISHER branch: the completion inside
\* _generate_openai_response_with_tts returns
FinisherTextReturns(t, out) ==
    /\ t \in tasks /\ Runnable(t)
    /\ t.path = "finisher" /\ t.pc = "get_chat_completion"
    /\ IF t.tts
       THEN /\ tasks' = (tasks \ {t}) \cup
                  {Task(t.sid, t.path, "text_to_speech", t.input, t.tts,
                        GeneratedText(out), t.turn)}
            /\ resp' = NoResp
            /\ UNCHANGED <<sess, stats>>
       ELSE /\ tasks' = tasks \ {t}
            /\ FinishConversation(t, GeneratedText(out), NoAudio)
    /\ UNCHANGED <<sessions, nextId, clock, updated>>

\* text_to_speech returns or raises, in either branch
SpeechReturns(t, speech) ==
    /\ t \in tasks /\ Runnable(t)
    /\ t.pc = "text_to_speech"
    /\ tasks' = tasks \ {t}
    /\ IF t.path = "finisher"
       THEN FinishConversation(t, t.text, TTSAudio(t.tts, speech))
       ELSE /\ AnswerParaphrase(t, t.text, TTSAudio(t.tts, speech),
                                sess[t.sid])
            /\ UNCHANGED <<sess, stats>>
    /\ UNCHANGED <<sessions, nextId, clock, updated>>

(***************************************************************************)
(* GET /flow-chat/session/{id}                                             *)
(***************************************************************************)
GetSession(sid) ==
    /\ CanServe
    /\ clock' = clock + 1
    /\ updated' = UnknownId
    /\ resp' = IF ~SessionExists(sid)
               THEN SessionNotFound("get_session", sid)
               ELSE [ FlowChatResponse("get_session", sid, sess[sid].stage, "",
                          NoAudio, sess[sid].learned_expressions, FALSE)
                      EXCEPT !.detail = "session info" ]
    /\ UNCHANGED <<sessions, sess, nextId, tasks, stats>>

(***************************************************************************)
(* DELETE /flow-chat/session/{id}                                          *)
(***************************************************************************)
DeleteSession(sid) ==
    /\ CanServe
    /\ clock' = clock + 1
    /\ updated' = UnknownId
    /\ IF ~SessionExists(sid)
       THEN /\ resp' = SessionNotFound("delete_session", sid)
            /\ UNCHANGED <<sessions, sess, stats>>
       ELSE /\ IF sess[sid].completion_status = "in_progress"
               THEN /\ sess' = [sess EXCEPT
                                  ![sid] = SaveSummary(sess[sid], "abandoned")]
                    /\ stats' = UpdateDailyStats(stats, sid, "abandoned")
               ELSE UNCHANGED <<sess, stats>>
            /\ sessions' = sessions \ {sid}
            /\ resp' = [ NoResp EXCEPT !.action = "delete_session",
                            !.sid = sid, !.status = 200,
                            !.detail = "Session deleted successfully" ]
    /\ UNCHANGED <<nextId, tasks>>

(***************************************************************************)
(* The specification of the session machine                                *)
(***************************************************************************)
\* ids a client can send: the unknown one and every id handed out so far
RequestIds == 0..nextId

(***************************************************************************)
(* TemplateHistoryManager                                                  *)
(***************************************************************************)
\* templates are any str, the empty one included
Templates == {"", "a", "b"}
\* None: the value of last_<category> before the first selection
NoTemplate == "<none>"
\* what select_diverse_template returns for an empty list
EmptyResult == ""
\* `if last_used`: None and "" are both falsy
Truthy(x) == x # NoTemplate /\ x # ""

KnownCategories ==
    {"reaction", "emotion", "continuation", "starter", "greeting"}
\* `category` is any str: one more value stands for every other string
Categories == KnownCategories \cup {"other"}

\* the categories the modelled callers pass; the five deques are handled
\* alike, so two of them and the unrecognised one cover the branches
CalledCategories == {"reaction", "greeting", "other"}

\* the lists a caller can pass: up to MaxTemplates templates, repeats allowed
TemplateLists ==
    UNION {[1..n -> Templates] : n \in 0..MaxTemplates}

Range(f) == {f[i] : i \in DOMAIN f}

RECURSIVE SumOver(_, _)
SumOver(f, S) ==
    IF S = {} THEN 0
    ELSE LET x == CHOOSE y \in S : TRUE IN f[x] + SumOver(f, S \ {x})

Selections == SumOver(usage_count, Templates)

Max(a, b) == IF a >= b THEN a ELSE b

RECURSIVE MaxOf(_)
MaxOf(s) == IF Len(s) = 1 THEN s[1] ELSE Max(s[1], MaxOf(Tail(s)))

\* the append of a deque without maxlen
DequeAppendUnbounded(q, x) == Append(q, x)

\* deque(maxlen=max_history_size).append
DequeAppend(q, x) ==
    LET r == Append(q, x) IN
    IF Len(r) > max_history_size
    THEN SubSeq(r, Len(r) - max_history_size + 1, Len(r))
    ELSE r

\* _get_recent_history
GetRecentHistory(category) ==
    IF category \in KnownCategories THEN Range(recent[category]) ELSE {}

\* _get_last_used
GetLastUsed(category) ==
    IF category \in KnownCategories THEN last[category] ELSE NoTemplate

\* step 1, had it kept the recently used ones
AfterRecentFilterKeepingAll(templates, category, avoid_recent) == templates

\* step 1 of select_diverse_template: drop the recently used ones unless
\* that drops everything
AfterRecentFilter(templates, category, avoid_recent) ==
    LET non_recent ==
            SelectSeq(templates, LAMBDA x : x \notin GetRecentHistory(category))
    IN IF avoid_recent /\ non_recent # <<>> THEN non_recent ELSE templates

\* step 2: drop the one used last
AfterLastFilter(available, category) ==
    LET last_used == GetLastUsed(category) IN
    IF /\ Truthy(last_used)
       /\ last_used \in Range(available)
       /\ Len(available) > 1
    THEN SelectSeq(available, LAMBDA x : x # last_used)
    ELSE available

AvailableTemplates(templates, category, avoid_recent) ==
    AfterLastFilter(AfterRecentFilter(templates, category, avoid_recent),
                    category)

\* the weights, had a usage count of 0 been taken as it is
UsageWeightsOfRawCounts(available) ==
    LET usage_counts == [i \in DOMAIN available |-> usage_count[available[i]]]
        max_usage == MaxOf(usage_counts)
    IN [i \in DOMAIN available |-> max_usage - usage_counts[i] + 1]

\* _select_by_usage_weight: the weights of the candidates
UsageWeights(available) ==
    LET usage_counts == [i \in DOMAIN available |->
                            Max(1, usage_count[available[i]])]
        max_usage == MaxOf(usage_counts)
    IN [i \in DOMAIN available |-> max_usage - usage_counts[i] + 1]

\* the indices the roulette (random.uniform over the cumulative weights) or
\* random.choice can stop at
Drawable(available, prefer_less_used) ==
    IF prefer_less_used /\ Len(available) > 1
    THEN LET w == UsageWeights(available) IN
         IF SumOver(w, DOMAIN w) = 0 THEN DOMAIN available
         ELSE {i \in DOMAIN available : w[i] > 0}
    ELSE DOMAIN available

\* _record_usage
RecordUsage(template, category) ==
    /\ usage_count' = [usage_count EXCEPT ![template] = @ + 1]
    /\ IF category \in KnownCategories
       THEN /\ recent' = [recent EXCEPT
                            ![category] = DequeAppend(@, template)]
            /\ last' = [last EXCEPT ![category] = template]
       ELSE UNCHANGED <<recent, last>>

CallRecord(templates, category, result, raised) ==
    [ templates |-> templates, category |-> category, result |-> result,
      raised |-> raised, previous |-> returned[category] ]

SelectInit ==
    /\ recent = [c \in KnownCategories |-> <<>>]
    /\ usage_count = [x \in Templates |-> 0]
    /\ last = [c \in KnownCategories |-> NoTemplate]
    /\ returned = [c \in Categories |-> NoTemplate]
    /\ call = [ templates |-> <<>>, category |-> "other",
                result |-> NoTemplate, raised |-> FALSE,
                previous |-> NoTemplate ]
    /\ max_history_size = HistorySize

\* select_diverse_template(templates, category, avoid_recent,
\* prefer_less_used); i is where the random draw stops
SelectDiverseTemplate(templates, category, avoid_recent, prefer_less_used, i) ==
    /\ UNCHANGED max_history_size
    /\ IF templates = <<>>
       THEN /\ i = 1
            /\ call' = CallRecord(templates, category, EmptyResult, FALSE)
            /\ returned' = [returned EXCEPT ![category] = NoTemplate]
            /\ UNCHANGED <<recent, usage_count, last>>
       ELSE IF Len(templates) = 1
       THEN /\ i = 1
            /\ RecordUsage(templates[1], category)
            /\ call' = CallRecord(templates, category, templates[1], FALSE)
            /\ returned' = [returned EXCEPT ![category] = templates[1]]
       ELSE LET available ==
                    AvailableTemplates(templates, category, avoid_recent)
            IN IF available = <<>>
               THEN \* random.choice([]) raises IndexError
                    /\ i = 1
                    /\ call' = CallRecord(templates, category, NoTemplate, TRUE)
                    /\ UNCHANGED <<recent, usage_count, last, returned>>
               ELSE /\ i \in Drawable(available, prefer_less_used)
                    /\ RecordUsage(available[i], category)
                    /\ call' = CallRecord(templates, category, available[i],
                                          FALSE)
                    /\ returned' = [returned EXCEPT ![category] = available[i]]

\* reset_history
ResetHistory ==
    /\ recent' = [c \in KnownCategories |-> <<>>]
    /\ usage_count' = [x \in Templates |-> 0]
    /\ last' = [c \in KnownCategories |-> NoTemplate]
    /\ returned' = [c \in Categories |-> NoTemplate]
    /\ UNCHANGED <<call, max_history_size>>

SelectNext ==
    \/ /\ Selections < MaxSelections
       /\ \E templates \in TemplateLists, category \in CalledCategories,
             avoid_recent \in BOOLEAN, prefer_less_used \in BOOLEAN,
             i \in 1..MaxTemplates :
             SelectDiverseTemplate(templates, category, avoid_recent,
                                   prefer_less_used, i)
       /\ UNCHANGED notSelectVars
    \/ ResetHistory /\ UNCHANGED notSelectVars

(***************************************************************************)
(* One caller selecting from a fixed pool of one category, with the        *)
(* default avoid_recent                                                    *)
(***************************************************************************)
\* the lists of distinct templates
Pools ==
    { templates \in TemplateLists :
         /\ Len(templates) >= 2
         /\ \A i, j \in DOMAIN templates : templates[i] = templates[j] => i = j }

PoolCategory == "reaction"

NoPool == << >>

\* no caller with a fixed pool
PoolStart ==
    /\ pool = NoPool
    /\ idle = [x \in Templates |-> 0]

\* a manager of some max_history_size and a pool that fits into its deques
PoolInit ==
    /\ recent = [c \in KnownCategories |-> <<>>]
    /\ usage_count = [x \in Templates |-> 0]
    /\ last = [c \in KnownCategories |-> NoTemplate]
    /\ returned = [c \in Categories |-> NoTemplate]
    /\ call = [ templates |-> <<>>, category |-> "other",
                result |-> NoTemplate, raised |-> FALSE,
                previous |-> NoTemplate ]
    /\ max_history_size \in 2..PoolHistorySize
    /\ pool \in { templates \in Pools : Len(templates) <= max_history_size }
    /\ idle = [x \in Templates |-> 0]

\* the caller counts, for each template of the pool, the selections that
\* returned another one
CountIdle ==
    idle' = [x \in Templates |->
                IF x \in Range(pool) /\ x # call'.result THEN idle[x] + 1
                ELSE 0]

SelectFromPool(prefer_less_used, i) ==
    /\ SelectDiverseTemplate(pool, PoolCategory, TRUE, prefer_less_used, i)
    /\ CountIdle
    /\ UNCHANGED pool

PoolNext ==
    /\ Selections < MaxPoolSelections
    /\ \E prefer_less_used \in BOOLEAN, i \in 1..MaxTemplates :
          SelectFromPool(prefer_less_used, i)
    /\ UNCHANGED notPoolVars

(***************************************************************************)
(* Several sessions calling select_diverse_template of the one manager,    *)
(* statement by statement                                                  *)
(***************************************************************************)
Callers == 1..MaxCallers

\* select_diverse_template, had it an await between its statements
SelectYieldsToOthers == TRUE

\* select_diverse_template and _record_usage are plain `def`s without an
\* await and the application starts no thread: a call that has begun runs to
\* its return before the event loop runs anything else
SelectYields == FALSE

NotCalling ==
    [ pc |-> "idle", category |-> "other", selected |-> NoTemplate,
      loaded |-> 0 ]

CallerInit ==
    /\ inflight = [s \in Callers |-> NotCalling]
    /\ finished = [c \in Categories |-> 0]

CallsBegun ==
    SumOver(finished, Categories)
        + Cardinality({s \in Callers : inflight[s].pc # "idle"})

\* caller s may run its next statement
MayRun(s) ==
    SelectYields \/ \A o \in Callers \ {s} : inflight[o].pc = "idle"

\* the call up to the selection: steps 1 to 3 of select_diverse_template
BeginSelect(s, templates, category, avoid_recent, prefer_less_used, i) ==
    /\ inflight[s].pc = "idle" /\ MayRun(s)
    /\ templates # << >>
    /\ LET available ==
              IF Len(templates) = 1 THEN templates
              ELSE AvailableTemplates(templates, category, avoid_recent)
       IN /\ available # << >>
          /\ i \in (IF Len(templates) = 1 THEN {1}
                    ELSE Drawable(available, prefer_less_used))
          /\ inflight' = [inflight EXCEPT
                            ![s] = [ pc |-> "load", category |-> category,
                                     selected |-> available[i],
                                     loaded |-> 0 ]]
    /\ UNCHANGED <<selectVars, finished>>

\* "if not templates: return ''"
SelectFromNothing(s, category) ==
    /\ inflight[s].pc = "idle" /\ MayRun(s)
    /\ call' = CallRecord(<< >>, category, EmptyResult, FALSE)
    /\ returned' = [returned EXCEPT ![category] = NoTemplate]
    /\ UNCHANGED <<recent, usage_count, last, max_history_size, callerVars>>

\* self.usage_count[template] += 1: the read
LoadCount(s) ==
    /\ inflight[s].pc = "load" /\ MayRun(s)
    /\ inflight' = [inflight EXCEPT
                      ![s].pc = "store",
                      ![s].loaded = usage_count[inflight[s].selected]]
    /\ UNCHANGED <<selectVars, finished>>

\* self.usage_count[template] += 1: the write
StoreCount(s) ==
    /\ inflight[s].pc = "store" /\ MayRun(s)
    /\ usage_count' = [usage_count EXCEPT
                         ![inflight[s].selected] = inflight[s].loaded + 1]
    /\ inflight' = [inflight EXCEPT ![s].pc = "append"]
    /\ UNCHANGED <<recent, last, returned, call, max_history_size, finished>>

\* self.recent_<category>s.append(template)
PushRecent(s) ==
    /\ inflight[s].pc = "append" /\ MayRun(s)
    /\ recent' = IF inflight[s].category \in KnownCategories
                 THEN [recent EXCEPT
                         ![inflight[s].category] =
                             DequeAppend(@, inflight[s].selected)]
                 ELSE recent
    /\ inflight' = [inflight EXCEPT ![s].pc = "last"]
    /\ UNCHANGED <<usage_count, last, returned, call, max_history_size,
                   finished>>

\* self.last_<category> = template; return selected
SetLastAndReturn(s) ==
    /\ inflight[s].pc = "last" /\ MayRun(s)
    /\ last' = IF inflight[s].category \in KnownCategories
               THEN [last EXCEPT ![inflight[s].category] = inflight[s].selected]
               ELSE last
    /\ returned' = [returned EXCEPT
                      ![inflight[s].category] = inflight[s].selected]
    /\ call' = [ templates |-> << >>, category |-> inflight[s].category,
                 result |-> inflight[s].selected, raised |-> FALSE,
                 previous |-> returned[inflight[s].category] ]
    /\ finished' = [finished EXCEPT ![inflight[s].category] = @ + 1]
    /\ inflight' = [inflight EXCEPT ![s] = NotCalling]
    /\ UNCHANGED <<recent, usage_count, max_history_size>>

CallerNext ==
    \/ /\ CallsBegun < MaxCalls
       /\ \E s \in Callers, templates \in TemplateLists,
             category \in CalledCategories, avoid_recent \in BOOLEAN,
             prefer_less_used \in BOOLEAN, i \in 1..MaxTemplates :
             BeginSelect(s, templates, category, avoid_recent,
                         prefer_less_used, i)
       /\ UNCHANGED notCallerVars
    \/ /\ CallsBegun < MaxCalls
       /\ \E s \in Callers, category \in CalledCategories :
             SelectFromNothing(s, category)
       /\ UNCHANGED notCallerVars
    \/ \E s \in Callers : LoadCount(s) /\ UNCHANGED notCallerVars
    \/ \E s \in Callers : StoreCount(s) /\ UNCHANGED notCallerVars
    \/ \E s \in Callers : PushRecent(s) /\ UNCHANGED notCallerVars
    \/ \E s \in Callers : SetLastAndReturn(s) /\ UNCHANGED notCallerVars

(***************************************************************************)
(* OpenAIService._combine_audio_files                                      *)
(***************************************************************************)
\* A URL: the directory, and the timestamp and content hash of the file
\* name.  The hash (md5(...)[:8], taken as collision-free) is written as
\* the fragments the file holds, in order.
Url(dir, ts, hash) == [dir |-> dir, ts |-> ts, hash |-> hash]

\* None
NoUrl == Url("<none>", 0, <<>>)
\* "", which `if url` drops
EmptyUrl == Url("", 0, <<>>)

\* the pre-rendered fragments a caller can name
Fragments == {"f1", "f2"}
FragmentUrl(f) == Url("fragments", 0, <<f>>)

\* len(AudioSegment.from_mp3(...)) of a fragment, in ms
FragmentMs(f) == IF f = "f1" THEN 1000 ELSE 1500

\* time.time() at the upload: the second of the earlier uploads or a later one
Timestamps == 0..1

\* a file _combine_audio_files uploaded in an earlier run, in second 0
EarlierCombinedUrl == Url("combined_audio", 0, <<"f1", "f2">>)

\* the URLs a caller can pass: "", the fragments, and the earlier file
CallerUrls ==
    {EmptyUrl, EarlierCombinedUrl} \cup {FragmentUrl(f) : f \in Fragments}

UrlLists == UNION {[1..n -> CallerUrls] : n \in 0..MaxUrls}

\* what happens to one URL of the loop: requests.get fails (or the body is
\* empty), AudioSegment.from_mp3 fails, or the segment is loaded
FragmentOutcomes == {"download_fails", "decode_fails", "decoded"}

\* enumerate: the positions of a list, in order
Indices(s) == [i \in 1..Len(s) |-> i]

\* valid_urls = [url for url in audio_urls if url], as positions
ValidPositions(audio_urls) ==
    SelectSeq(Indices(audio_urls), LAMBDA i : audio_urls[i] # EmptyUrl)

\* audio_segments after the loop, as positions of audio_urls: a failed
\* download or decode is `continue`
LoadedUntilFailure(audio_urls, outcome) ==
    LET valid == ValidPositions(audio_urls)
        first_bad == SelectSeq(Indices(valid),
                         LAMBDA k : outcome[valid[k]] # "decoded")
    IN IF first_bad = <<>> THEN valid
       ELSE SubSeq(valid, 1, first_bad[1] - 1)

Loaded(audio_urls, outcome) ==
    LET valid == ValidPositions(audio_urls) IN
    SelectSeq(valid, LAMBDA i : outcome[i] = "decoded")

RECURSIVE Flatten(_)
Flatten(ss) == IF ss = <<>> THEN <<>> ELSE Head(ss) \o Flatten(Tail(ss))

RECURSIVE TotalMs(_)
TotalMs(frags) ==
    IF frags = <<>> THEN 0 ELSE FragmentMs(Head(frags)) + TotalMs(Tail(frags))

\* the audio behind a URL: its fragments, each GapMs after the one before
\* (a fragment file holds one)
AudioMs(hash) ==
    IF hash = <<>> THEN 0 ELSE TotalMs(hash) + GapMs * (Len(hash) - 1)

\* combined_audio = audio_segments[0]; += silence + segment: its length
CombinedMsNoGap(segments) ==
    LET RECURSIVE Sum(_)
        Sum(s) == IF s = <<>> THEN 0 ELSE AudioMs(Head(s)) + Sum(Tail(s))
    IN Sum(segments)

CombinedMs(segments) ==
    LET RECURSIVE Sum(_)
        Sum(s) == IF s = <<>> THEN 0 ELSE AudioMs(Head(s)) + Sum(Tail(s))
    IN Sum(segments) + GapMs * (Len(segments) - 1)

\* The temporary files of a call (tempfile.NamedTemporaryFile(delete=False)):
\* one per downloaded fragment, named by its position, and the combined one.
CombinedTemp == <<"combined", 0>>
FragmentTemp(i) == <<"fragment", i>>

\* the files the call creates: one for every URL of the loop whose download
\* succeeded, and the combined one once a segment is loaded (the export
\* writes into it)
TempFilesCreated(audio_urls, outcome) ==
    LET valid == ValidPositions(audio_urls) IN
    IF Len(valid) <= 1 THEN {}
    ELSE {FragmentTemp(valid[k]) : k \in {j \in DOMAIN valid :
                                     outcome[valid[j]] # "download_fails"}}
         \cup (IF Loaded(audio_urls, outcome) # <<>> THEN {CombinedTemp}
               ELSE {})

\* the list temp_files: a path is appended as soon as the file is written
TempFilesListed(audio_urls, outcome) ==
    TempFilesCreated(audio_urls, outcome) \ {CombinedTemp}

\* whether the local combined_temp_path is bound when `finally` runs: it is
\* assigned after combined_audio.export(...) returns
CombinedTempPathBound(audio_urls, outcome, failed) ==
    /\ CombinedTemp \in TempFilesCreated(audio_urls, outcome)
    /\ failed # "export"

\* the files os.unlink is called on, in the success branch or in `finally`:
\* those of temp_files, and combined_temp_path if it is in locals()
TempFilesUnlinked(audio_urls, outcome, failed) ==
    TempFilesListed(audio_urls, outcome)
    \cup (IF CombinedTempPathBound(audio_urls, outcome, failed)
          THEN {CombinedTemp} ELSE {})

\* the temporary files still on disk when the call returns
TempFilesLeft(audio_urls, outcome, failed) ==
    TempFilesCreated(audio_urls, outcome)
    \ TempFilesUnlinked(audio_urls, outcome, failed)

\* what a call did: its arguments, the segments it loaded, the step that
\* failed after the loop ("export", "upload" or none), what it returned, how
\* many downloads it made, whether it uploaded, the length of the upload,
\* and the temporary files it created and left
CombineRecord(audio_urls, outcome, loaded, failed, result, downloads, ms) ==
    [ audio_urls |-> audio_urls, outcome |-> outcome, loaded |-> loaded,
      failed |-> failed, result |-> result, downloads |-> downloads,
      uploaded |-> result # NoUrl /\ downloads > 0,
      stored_before |-> r2,
      temp_created |-> TempFilesCreated(audio_urls, outcome),
      temp_left |-> TempFilesLeft(audio_urls, outcome, failed),
      ms |-> ms, raised |-> FALSE, calls |-> combined.calls + 1 ]

AudioInit ==
    /\ r2 = {}
    /\ combined = [ audio_urls |-> <<>>, outcome |-> <<>>, loaded |-> <<>>,
                    failed |-> "", result |-> NoUrl, downloads |-> 0,
                    uploaded |-> FALSE, stored_before |-> {},
                    temp_created |-> {}, temp_left |-> {},
                    ms |-> 0, raised |-> FALSE, calls |-> 0 ]

\* _combine_audio_files(audio_urls): every exception is caught by the outer
\* try, the cleanup in `finally` has its own.  outcome[i] is what happens to
\* audio_urls[i] in the loop; the export, the upload and the clock are drawn
\* where the code reaches them.
CombineAudioFiles(audio_urls, outcome) ==
    LET valid == ValidPositions(audio_urls)
        loaded == Loaded(audio_urls, outcome)
        segments == [k \in DOMAIN loaded |-> audio_urls[loaded[k]].hash]
    IN
    /\ combined.calls < MaxCombines
    /\ IF valid = <<>>
       THEN /\ combined' = CombineRecord(audio_urls, outcome, <<>>, "",
                                         NoUrl, 0, 0)
            /\ UNCHANGED r2
       ELSE IF Len(valid) = 1
       THEN /\ combined' = CombineRecord(audio_urls, outcome, <<>>, "",
                                         audio_urls[valid[1]], 0, 0)
            /\ UNCHANGED r2
       ELSE IF loaded = <<>>
       THEN /\ combined' = CombineRecord(audio_urls, outcome, loaded, "",
                                         NoUrl, Len(valid), 0)
            /\ UNCHANGED r2
       ELSE \E export_ok \in BOOLEAN, upload_success \in BOOLEAN,
               timestamp \in Timestamps :
               LET combined_url ==
                       Url("combined_audio", timestamp, Flatten(segments))
               IN IF export_ok /\ upload_success
                  THEN /\ combined' = CombineRecord(audio_urls, outcome,
                                          loaded, "", combined_url,
                                          Len(valid), CombinedMs(segments))
                       /\ r2' = r2 \cup {combined_url}
                  ELSE \* export raises, or upload_file returns False
                       /\ combined' = CombineRecord(audio_urls, outcome,
                                          loaded,
                                          IF export_ok THEN "upload"
                                          ELSE "export",
                                          NoUrl, Len(valid), 0)
                       /\ UNCHANGED r2

AudioNext ==
    \E audio_urls \in UrlLists :
       \E outcome \in [DOMAIN audio_urls -> FragmentOutcomes] :
          CombineAudioFiles(audio_urls, outcome)
          /\ UNCHANGED notAudioVars

(***************************************************************************)
(* OpenAIService._find_audio_url_for_text                                  *)
(***************************************************************************)
Texts == {"t1", "t2", "t3"}

\* _get_text_hash: md5(text)[:8]
GetTextHash(text) ==
    CASE text = "t1" -> "h1"
      [] text = "t2" -> "h2"
      [] OTHER -> "h3"

\* A URL of the index, as the parts of its path; the last one is the file
\* name.  `text_hash in url` looks at all of them.
HashInUrl(text_hash, url) == \E k \in DOMAIN url : url[k] = text_hash
FileName(url) == url[Len(url)]

\* None, as a result
NotLocated == <<"<none>">>

Languages == {"korean", "english"}

LocateCategories ==
    {"greetings", "reactions/empathy", "emotions/happy",
     "topics/favorites", "favorites"}

\* the section of the index a category names: "greetings" is a top-level
\* key, "reactions/x", "emotions/x" and "continuations/x" are x under that
\* key, everything else is its last path element under "topics"
SectionOf(category) ==
    CASE category = "greetings" -> <<"greetings">>
      [] category = "reactions/empathy" -> <<"reactions", "empathy">>
      [] category = "emotions/happy" -> <<"emotions", "happy">>
      [] category = "continuations/question_expansion" ->
            <<"continuations", "question_expansion">>
      [] OTHER -> <<"topics", "favorites">>

\* An index document: `keys`, the (section, from-language) pairs that have a
\* "from_<language>" entry, and `urls`, the URL lists below them by language.
\* The generator leaves None in a list where it could not produce the audio.
IndexA ==
    [ keys |-> { <<<<"greetings">>, "korean">>,
                 <<<<"greetings">>, "english">>,
                 <<<<"reactions", "empathy">>, "english">>,
                 <<<<"emotions", "happy">>, "english">>,
                 <<<<"topics", "favorites">>, "korean">> },
      urls |->
        ( <<<<"greetings">>, "korean", "korean">> :>
              << <<"greetings", "h2">>, <<"greetings", "h1">> >> )
        @@ ( <<<<"greetings">>, "korean", "english">> :>
              << <<"greetings", "h9">> >> )
        @@ ( <<<<"greetings">>, "english", "english">> :>
              << <<"h1", "h9">>, <<"greetings", "h1">> >> )
        @@ ( <<<<"reactions", "empathy">>, "english", "korean">> :>
              << <<"reactions", "h1">> >> )
        @@ ( <<<<"emotions", "happy">>, "english", "english">> :>
              << NotLocated, <<"emotions", "h2">> >> )
        @@ ( <<<<"topics", "favorites">>, "korean", "korean">> :> << >> ) ]

IndexB ==
    [ keys |-> { <<<<"greetings">>, "korean">> },
      urls |->
        ( <<<<"greetings">>, "korean", "korean">> :>
              << <<"greetings", "h1">> >> ) ]

\* {}
EmptyIndex == [ keys |-> {}, urls |-> << >> ]

\* what the file can hold: an index, or nothing json.load can read
MetadataFiles == {"missing", "corrupt", "A", "B", "empty"}

\* _load_audio_metadata: what is read from the file
ReadMetadata(file) ==
    CASE file = "A" -> IndexA
      [] file = "B" -> IndexB
      [] OTHER -> EmptyIndex

\* the metadata this call works on: loaded by the first call only
LoadedMetadata ==
    IF metadata_loaded THEN audio_metadata ELSE ReadMetadata(metadata_file)

\* metadata_section[user_key].get(lang, [])
LangSection(metadata, section, from_lang, lang) ==
    IF <<section, from_lang, lang>> \in DOMAIN metadata.urls
    THEN metadata.urls[<<section, from_lang, lang>>]
    ELSE << >>

\* the lookup, had it read the bucket of the target language
FindAudioUrlTargetBucket(metadata, text, category, from_lang, to_lang) ==
    LET section == SectionOf(category)
        lang_section == LangSection(metadata, section, from_lang, to_lang)
        matches == SelectSeq(lang_section,
                       LAMBDA url : HashInUrl(GetTextHash(text), url))
    IN IF metadata = EmptyIndex THEN NotLocated
       ELSE IF <<section, from_lang>> \notin metadata.keys THEN NotLocated
       ELSE IF matches # << >> THEN matches[1]
       ELSE IF lang_section # << >> THEN lang_section[1]
       ELSE NotLocated

\* the lookup of _find_audio_url_for_text on loaded metadata
FindAudioUrl(metadata, text, category, from_lang, to_lang) ==
    LET section == SectionOf(category)
        lang_section == LangSection(metadata, section, from_lang, from_lang)
        matches == SelectSeq(lang_section,
                       LAMBDA url : HashInUrl(GetTextHash(text), url))
    IN IF metadata = EmptyIndex THEN NotLocated
       ELSE IF <<section, from_lang>> \notin metadata.keys THEN NotLocated
       ELSE IF matches # << >> THEN matches[1]
       ELSE IF lang_section # << >> THEN lang_section[1]
       ELSE NotLocated

LocateInit ==
    /\ metadata_file \in MetadataFiles
    /\ audio_metadata = EmptyIndex
    /\ metadata_loaded = FALSE
    /\ located = [ calls |-> 0, text |-> "t1", category |-> "greetings",
                   from_lang |-> "korean", to_lang |-> "korean",
                   result |-> NotLocated, raised |-> FALSE ]

\* _find_audio_url_for_text(text, category, from_lang, to_lang)
FindAudioUrlForText(text, category, from_lang, to_lang) ==
    /\ located.calls < MaxLocates
    /\ audio_metadata' = LoadedMetadata
    /\ metadata_loaded' = TRUE
    /\ located' = [ calls |-> located.calls + 1, text |-> text,
                    category |-> category, from_lang |-> from_lang,
                    to_lang |-> to_lang,
                    result |-> FindAudioUrl(LoadedMetadata, text, category,
                                            from_lang, to_lang),
                    raised |-> FALSE ]
    /\ UNCHANGED metadata_file

\* the audio generation script rewrites the index file
RewriteMetadataFile(file) ==
    /\ file # metadata_file
    /\ metadata_file' = file
    /\ UNCHANGED <<audio_metadata, metadata_loaded, located>>

LocateNext ==
    \/ \E text \in Texts, category \in LocateCategories,
          from_lang \in Languages, to_lang \in Languages :
          FindAudioUrlForText(text, category, from_lang, to_lang)
          /\ UNCHANGED notLocateVars
    \/ \E file \in MetadataFiles :
          RewriteMetadataFile(file) /\ UNCHANGED notLocateVars

(***************************************************************************)
(* OpenAIService._analyze_user_message_with_openai                         *)
(***************************************************************************)
ReactionCategory ==
    {"EMPATHY", "ACCEPTANCE", "SURPRISE", "COMFORT", "JOY_SHARING",
     "CONFIRMATION", "SLOW_QUESTIONING"}

EmotionCategory ==
    {"HAPPY", "SAD", "ANGRY", "SCARED", "SHY", "SLEEPY", "UPSET", "CONFUSED",
     "BORED", "LOVE", "PROUD", "NERVOUS"}

ContinuationCategory ==
    {"EMOTION_EXPLORATION", "EMOTION_ACTION", "EMOTION_LEARNING",
     "QUESTION_EXPANSION", "ENCOURAGEMENT_FLOW", "EMOTION_TRANSITION"}

NoKeyword == "<no keyword>"

\* A user message, by what the keyword scans find in it: the first reaction
\* whose keywords it contains, the first emotion whose keywords it contains,
\* whether its stripped length is below 10, whether it contains a learning
\* keyword.
Messages ==
    [ reaction_hit : {NoKeyword, "JOY_SHARING", "COMFORT", "SURPRISE",
                      "SLOW_QUESTIONING"},
      emotion_hit  : {NoKeyword, "HAPPY", "ANGRY", "SLEEPY"},
      short        : BOOLEAN,
      learning     : BOOLEAN ]

\* the analyser, had it tested the length before scanning for keywords
AnalyzeUserMessageForReactionLengthFirst(message) ==
    IF message.short THEN "SLOW_QUESTIONING"
    ELSE IF message.reaction_hit # NoKeyword THEN message.reaction_hit
    ELSE "EMPATHY"

\* _analyze_user_message_for_reaction
AnalyzeUserMessageForReaction(message) ==
    IF message.reaction_hit # NoKeyword THEN message.reaction_hit
    ELSE IF message.short THEN "SLOW_QUESTIONING"
    ELSE "EMPATHY"

\* reaction_to_emotion
ReactionToEmotion(reaction) ==
    CASE reaction = "JOY_SHARING" -> {"HAPPY", "LOVE", "PROUD"}
      [] reaction = "COMFORT" -> {"SAD", "UPSET", "SCARED"}
      [] reaction = "SURPRISE" -> {"CONFUSED", "NERVOUS"}
      [] reaction = "EMPATHY" -> {"HAPPY", "SAD"}
      [] reaction = "ACCEPTANCE" -> {"ANGRY", "UPSET"}
      [] reaction = "CONFIRMATION" -> {"CONFUSED", "UPSET"}
      [] reaction = "SLOW_QUESTIONING" -> {"SHY", "CONFUSED"}
      [] OTHER -> {"HAPPY"}

\* _analyze_user_message_for_emotion: what it can return
AnalyzeUserMessageForEmotion(message, reaction) ==
    IF message.emotion_hit # NoKeyword THEN {message.emotion_hit}
    ELSE ReactionToEmotion(reaction)

\* emotion_to_continuation
EmotionToContinuation(emotion) ==
    CASE emotion \in {"HAPPY", "LOVE", "PROUD"} ->
            {"QUESTION_EXPANSION", "ENCOURAGEMENT_FLOW"}
      [] emotion \in {"SAD", "SCARED"} ->
            {"EMOTION_EXPLORATION", "EMOTION_TRANSITION"}
      [] emotion \in {"ANGRY", "NERVOUS", "SLEEPY"} ->
            {"EMOTION_ACTION", "EMOTION_TRANSITION"}
      [] emotion \in {"UPSET", "CONFUSED"} ->
            {"EMOTION_EXPLORATION", "EMOTION_ACTION"}
      [] emotion = "SHY" -> {"EMOTION_EXPLORATION", "ENCOURAGEMENT_FLOW"}
      [] emotion = "BORED" -> {"QUESTION_EXPANSION", "EMOTION_TRANSITION"}
      [] OTHER -> {"QUESTION_EXPANSION"}

\* _analyze_for_continuation_category: what it can return
AnalyzeForContinuationCategory(emotion, reaction, message) ==
    IF message.short THEN {"EMOTION_EXPLORATION"}
    ELSE IF message.learning THEN {"EMOTION_LEARNING"}
    ELSE IF reaction \in {"COMFORT", "ACCEPTANCE"} THEN {"EMOTION_TRANSITION"}
    ELSE IF reaction = "SLOW_QUESTIONING" THEN {"EMOTION_EXPLORATION"}
    ELSE EmotionToContinuation(emotion)

\* _fallback_category_selection: the triples it can return
FallbackCategorySelection(message) ==
    LET reaction == AnalyzeUserMessageForReaction(message)
    IN { triple \in
            { <<reaction, emotion, continuation>> :
                 emotion \in AnalyzeUserMessageForEmotion(message, reaction),
                 continuation \in ContinuationCategory } :
            triple[3] \in AnalyzeForContinuationCategory(triple[2], triple[1],
                                                         message) }

\* what the LLM call can do
LLMOutcomes ==
    {"raises", "content_none", "content_empty", "unparseable", "not_an_object",
     "object"}

\* a field of the parsed object: absent, null, or a string
Missing == "<missing>"
Null == "<null>"
FieldValues(members) ==
    {Missing, Null, "bogus", "happy", "HAPPY", "EMPATHY", "EMOTION_ACTION"}
        \cup { CHOOSE m \in members : m \notin {"HAPPY", "EMPATHY",
                                                 "EMOTION_ACTION"} }

ParsedResponses ==
    [ reaction     : FieldValues(ReactionCategory),
      emotion      : FieldValues(EmotionCategory),
      continuation : FieldValues(ContinuationCategory) ]

\* the lookup, had it returned the default whatever the object holds
GetDefault(field, default) == default

\* parsed_response.get(key, default)
Get(field, default) == IF field = Missing THEN default ELSE field

\* the enum conversion, had it no handler for ValueError
ToEnumUnchecked(members, value, default) == value

\* Enum(value), with the default of the except ValueError branch
ToEnum(members, value, default) ==
    IF value \in members THEN value ELSE default

\* the exception an outcome ends in, and the try block it is raised in
ExceptionOf(outcome) ==
    CASE outcome = "raises" -> [ type |-> "APIError", in |-> "outer" ]
      [] outcome = "content_none" ->
            [ type |-> "AttributeError", in |-> "outer" ]
      [] outcome \in {"content_empty", "unparseable"} ->
            [ type |-> "JSONDecodeError", in |-> "inner" ]
      [] outcome = "not_an_object" ->
            [ type |-> "AttributeError", in |-> "inner" ]
      [] OTHER -> [ type |-> "none", in |-> "none" ]

\* except json.JSONDecodeError, then except Exception: both go to the fallback
HandledByFallback(exception) ==
    \/ exception.in = "inner" /\ exception.type = "JSONDecodeError"
    \/ exception.type # "none"

ClassifyRecord(message, outcome, parsed, triple, raised) ==
    [ calls |-> classified.calls + 1, message |-> message,
      outcome |-> outcome, parsed |-> parsed,
      reaction |-> triple[1], emotion |-> triple[2],
      continuation |-> triple[3], raised |-> raised ]

NoTriple == <<"<none>", "<none>", "<none>">>
NoParsed == [ reaction |-> Missing, emotion |-> Missing,
              continuation |-> Missing ]

ClassifyInit ==
    classified = [ calls |-> 0,
                   message |-> [ reaction_hit |-> NoKeyword,
                                 emotion_hit |-> NoKeyword,
                                 short |-> TRUE, learning |-> FALSE ],
                   outcome |-> "raises", parsed |-> NoParsed,
                   reaction |-> "<none>", emotion |-> "<none>",
                   continuation |-> "<none>", raised |-> FALSE ]

\* _analyze_user_message_with_openai, the LLM answering with a JSON object
ClassifyFromObject(message, parsed) ==
    /\ classified' =
          ClassifyRecord(message, "object", parsed,
              << ToEnum(ReactionCategory,
                        Get(parsed.reaction, "EMPATHY"), "EMPATHY"),
                 ToEnum(EmotionCategory,
                        Get(parsed.emotion, "HAPPY"), "HAPPY"),
                 ToEnum(ContinuationCategory,
                        Get(parsed.continuation, "QUESTION_EXPANSION"),
                        "QUESTION_EXPANSION") >>,
              FALSE)

\* _analyze_user_message_with_openai, the LLM call or the parsing failing
ClassifyByFallback(message, outcome) ==
    /\ outcome # "object"
    /\ IF HandledByFallback(ExceptionOf(outcome))
       THEN \E triple \in FallbackCategorySelection(message) :
               classified' =
                   ClassifyRecord(message, outcome, NoParsed, triple, FALSE)
       ELSE classified' =
               ClassifyRecord(message, outcome, NoParsed, NoTriple, TRUE)

ClassifyNext ==
    \/ /\ classified.calls < MaxClassifications
       /\ \E message \in Messages, parsed \in ParsedResponses :
             ClassifyFromObject(message, parsed)
       /\ UNCHANGED notClassifyVars
    \/ /\ classified.calls < MaxClassifications
       /\ \E message \in Messages, outcome \in LLMOutcomes :
             ClassifyByFallback(message, outcome)
       /\ UNCHANGED notClassifyVars

(***************************************************************************)
(* One client: pick_emotion, then voice_input until the conversation is    *)
(* completed, each request sent after the response to the one before       *)
(***************************************************************************)
ClientInit == heard = << >>

\* the client reads the response to its voice_input
Hear ==
    heard' =
        IF resp'.action = "voice_input"
        THEN Append(heard, [ status |-> resp'.status,
                             target_words |-> resp'.target_words,
                             completed |-> resp'.completed ])
        ELSE heard

ClientPicksEmotion(tts, llm, speech) ==
    /\ nextId = 0
    /\ PickEmotion("happy", tts, llm, speech)
    /\ UNCHANGED heard

ClientSpeaks(tts) ==
    /\ nextId = 1 /\ tasks = {}
    /\ Len(heard) < MaxInputs
    /\ VoiceInput(1, "u1", tts)
    /\ Hear

RoundTripNext ==
    \/ \E tts \in BOOLEAN, llm \in TextOutcomes, speech \in TTSOutcomes :
          ClientPicksEmotion(tts, llm, speech)
          /\ UNCHANGED notClientVars
    \/ \E tts \in BOOLEAN : ClientSpeaks(tts)
          /\ UNCHANGED notClientVars
    \/ \E t \in tasks, out \in JsonOutcomes : UnifiedReturns(t, out) /\ Hear
          /\ UNCHANGED notClientVars
    \/ \E t \in tasks, out \in TextOutcomes :
          FinisherTextReturns(t, out) /\ Hear
          /\ UNCHANGED notClientVars
    \/ \E t \in tasks, speech \in TTSOutcomes : SpeechReturns(t, speech) /\ Hear
          /\ UNCHANGED notClientVars

(***************************************************************************)
(* scripts/generate_audio.py, and the response pipelines of                *)
(* OpenAIService that look its fragments up                                *)
(***************************************************************************)
\* the sections of the assets the script renders: greetings.json,
\* topics/*.json, chat_responses/reactions/*.json and emotions/*.json
AssetSections ==
    { <<"greetings">>, <<"topics", "favorites">>,
      <<"reactions", "empathy">>, <<"emotions", "happy">> }

\* data["from_<from_lang>"][to_lang] of an asset file: the templates of a
\* language pair.  The answers for a learner of another language are other
\* texts than those for a learner of their own.
AssetTexts(section, from_lang, to_lang) ==
    IF to_lang = from_lang THEN <<"t1">> ELSE <<"t2">>

\* the continuation templates: the script renders no audio for them
ContinuationTexts(from_lang, to_lang) == <<"t1">>

\* f"{selected_greeting} {selected_starter}": a text no asset holds
FullConversation(greeting, starter) == "t3"

\* every text the script is to render, by bucket and position
AssetItems ==
    { <<section, from_lang, to_lang, index>> :
         section \in AssetSections, from_lang \in Languages,
         to_lang \in Languages, index \in {1} }

\* _get_audio_file_path and the URL made of it:
\* conversation_starters/<category>/<from>_<to>/<index>_<hash>.mp3
GetAudioFileUrl(section, from_lang, to_lang, index, text_hash) ==
    section \o <<from_lang, to_lang, "0", text_hash>>

\* AudioGenerator._get_text_hash: md5(text)[:8], the function of the service
GeneratorTextHash(text) == GetTextHash(text)

\* one entry of results[from_lang][to_lang]: the URL, or None where
\* _generate_and_upload_audio failed
GeneratedEntry(item, failed) ==
    IF item \in failed THEN NotLocated
    ELSE GetAudioFileUrl(item[1], item[2], item[3], item[4],
             GeneratorTextHash(AssetTexts(item[1], item[2], item[3])[item[4]]))

\* process_greetings .. process_emotions and save_metadata: the index
BuiltMetadata(failed) ==
    [ keys |-> { <<section, from_lang>> :
                    section \in AssetSections, from_lang \in Languages },
      urls |-> [ bucket \in AssetSections \X Languages \X Languages |->
                    << GeneratedEntry(<<bucket[1], bucket[2], bucket[3], 1>>,
                                      failed) >> ] ]

\* the fragments produced and indexed: text, bucket and URL
ProducedFragments(failed) ==
    { [ text |-> AssetTexts(item[1], item[2], item[3])[item[4]],
        section |-> item[1], from_lang |-> item[2], to_lang |-> item[3],
        url |-> GeneratedEntry(item, failed) ] : item \in AssetItems \ failed }

\* the URL _combine_audio_files uploads
CombinedAudioUrl == <<"combined_audio", "c">>

CombineResults == {"combined", "none"}

\* "그렇구나~ 더 말해줄래?"
FallbackResponse == <<"fallback">>

\* one _find_audio_url_for_text call of a pipeline
PipelineLookup(text, category, from_lang, to_lang) ==
    [ text |-> text, category |-> category,
      result |-> FindAudioUrl(generated_metadata, text, category,
                              from_lang, to_lang) ]

\* valid_audio_urls: the URLs found, in order
ValidAudioUrls(lookups) ==
    LET found == SelectSeq(lookups, LAMBDA l : l.result # NotLocated)
    IN [k \in DOMAIN found |-> found[k].result]

\* the audio of a response whose fragments could not be combined, had it
\* been dropped
FirstValidUrlDropped(valid_audio_urls) == NotLocated

\* "audio_url = valid_audio_urls[0] if valid_audio_urls else None"
FirstValidUrl(valid_audio_urls) ==
    IF valid_audio_urls # << >> THEN valid_audio_urls[1] ELSE NotLocated

\* the audio of a templated response: nothing found, the only URL found
\* (which _combine_audio_files hands back), the combined file, or the first
\* URL found when combining returns None
TemplatedAudioUrl(valid_audio_urls, combine_result) ==
    IF valid_audio_urls = << >> THEN NotLocated
    ELSE IF Len(valid_audio_urls) = 1 THEN valid_audio_urls[1]
    ELSE IF combine_result = "combined" THEN CombinedAudioUrl
    ELSE FirstValidUrl(valid_audio_urls)

PipelineRecord(kind, user_language, ai_language, lookups, excepted, combine_result, response, audio_url) ==
    [ kind |-> kind, user_language |-> user_language,
      ai_language |-> ai_language, lookups |-> lookups,
      excepted |-> excepted, combine_result |-> combine_result,
      response |-> response, audio_url |-> audio_url, raised |-> FALSE ]

PipelineInit ==
    /\ generated_metadata = EmptyIndex
    /\ fragments = {}
    /\ pipeline = PipelineRecord("none", "korean", "korean", << >>, FALSE,
                                 "none", << >>, NotLocated)

\* AudioGenerator.run: render every text of the assets, `failed` being the
\* ones _generate_and_upload_audio fails on, and save the index
GenerateAudio(failed) ==
    /\ generated_metadata = EmptyIndex
    /\ generated_metadata' = BuiltMetadata(failed)
    /\ fragments' = ProducedFragments(failed)
    /\ UNCHANGED pipeline

\* generate_templated_chat_response, the message being classified EMPATHY,
\* HAPPY, QUESTION_EXPANSION.  assets_ok: the three template lists are not
\* empty (random.choice of an empty one raises, and the outer handler
\* answers with the fallback response).
GenerateTemplatedChatResponse(user_language, ai_language, assets_ok, combine_result) ==
    LET selected_reaction ==
            AssetTexts(<<"reactions", "empathy">>, user_language,
                       ai_language)[1]
        selected_expansion ==
            AssetTexts(<<"emotions", "happy">>, user_language, ai_language)[1]
        selected_continuation ==
            ContinuationTexts(user_language, ai_language)[1]
        lookups ==
            << PipelineLookup(selected_reaction, "reactions/empathy",
                              user_language, ai_language),
               PipelineLookup(selected_expansion, "emotions/happy",
                              user_language, ai_language),
               PipelineLookup(selected_continuation,
                              "continuations/question_expansion",
                              user_language, ai_language) >>
    IN
    /\ generated_metadata # EmptyIndex
    /\ pipeline' =
          IF assets_ok
          THEN PipelineRecord("templated", user_language, ai_language,
                   lookups, FALSE, combine_result,
                   <<selected_reaction, " ", selected_expansion, " ",
                     selected_continuation>>,
                   TemplatedAudioUrl(ValidAudioUrls(lookups), combine_result))
          ELSE PipelineRecord("templated", user_language, ai_language,
                   << >>, TRUE, combine_result, FallbackResponse, NotLocated)
    /\ UNCHANGED <<generated_metadata, fragments>>

\* generate_conversation_starters for the topic favorites: the whole
\* conversation is looked up among the topic's fragments, and the greeting
\* among the greetings if that finds nothing
GenerateConversationStarters(user_language, ai_language) ==
    LET selected_greeting ==
            AssetTexts(<<"greetings">>, user_language, ai_language)[1]
        selected_starter ==
            AssetTexts(<<"topics", "favorites">>, user_language,
                       ai_language)[1]
        whole == PipelineLookup(
                     FullConversation(selected_greeting, selected_starter),
                     "topics/favorites", user_language, ai_language)
        greeting == PipelineLookup(selected_greeting, "greetings",
                                   user_language, ai_language)
        lookups == IF whole.result # NotLocated THEN <<whole>>
                   ELSE <<whole, greeting>>
    IN
    /\ generated_metadata # EmptyIndex
    /\ pipeline' =
          PipelineRecord("starters", user_language, ai_language, lookups,
              FALSE, "none",
              <<selected_greeting, " ", selected_starter>>,
              lookups[Len(lookups)].result)
    /\ UNCHANGED <<generated_metadata, fragments>>

PipelineNext ==
    \/ \E failed \in SUBSET AssetItems :
          /\ Cardinality(failed) <= MaxFailures
          /\ GenerateAudio(failed)
          /\ UNCHANGED notPipelineVars
    \/ \E user_language \in Languages, ai_language \in Languages,
          assets_ok \in BOOLEAN, combine_result \in CombineResults :
          GenerateTemplatedChatResponse(user_language, ai_language,
                                        assets_ok, combine_result)
          /\ UNCHANGED notPipelineVars
    \/ \E user_language \in Languages, ai_language \in Languages :
          GenerateConversationStarters(user_language, ai_language)
          /\ UNCHANGED notPipelineVars

(***************************************************************************)
(* The specifications                                                      *)
(***************************************************************************)
\* the index file as the service finds it at start
LocateStart ==
    /\ metadata_file = "A"
    /\ audio_metadata = EmptyIndex
    /\ metadata_loaded = FALSE
    /\ located = [ calls |-> 0, text |-> "t1", category |-> "greetings",
                   from_lang |-> "korean", to_lang |-> "korean",
                   result |-> NotLocated, raised |-> FALSE ]

Init ==
    /\ FlowInit /\ SelectInit /\ AudioInit /\ LocateStart /\ ClassifyInit
    /\ ClientInit /\ PoolStart /\ CallerInit /\ PipelineInit

Next ==
    \/ \E e \in Emotions, tts \in BOOLEAN, llm \in TextOutcomes,
          speech \in TTSOutcomes : PickEmotion(e, tts, llm, speech)
          /\ UNCHANGED notFlowVars
    \/ \E sid \in RequestIds, tts \in BOOLEAN, speech \in TTSOutcomes :
          NextStage(sid, tts, speech)
          /\ UNCHANGED notFlowVars
    \/ \E sid \in RequestIds : Restart(sid)
          /\ UNCHANGED notFlowVars
    \/ \E sid \in RequestIds, u \in UserInputs, tts \in BOOLEAN :
          VoiceInput(sid, u, tts)
          /\ UNCHANGED notFlowVars
    \/ \E t \in tasks, out \in JsonOutcomes : UnifiedReturns(t, out)
          /\ UNCHANGED notFlowVars
    \/ \E t \in tasks, out \in TextOutcomes : FinisherTextReturns(t, out)
          /\ UNCHANGED notFlowVars
    \/ \E t \in tasks, speech \in TTSOutcomes : SpeechReturns(t, speech)
          /\ UNCHANGED notFlowVars
    \/ \E sid \in RequestIds : GetSession(sid)
          /\ UNCHANGED notFlowVars
    \/ \E sid \in RequestIds : DeleteSession(sid)
          /\ UNCHANGED notFlowVars

Spec == Init /\ [][Next]_vars

SpecSelect == Init /\ [][SelectNext]_vars

SpecAudio == Init /\ [][AudioNext]_vars

\* the service started on any index file
InitLocate ==
    /\ FlowInit /\ SelectInit /\ AudioInit /\ LocateInit /\ ClassifyInit
    /\ ClientInit /\ PoolStart /\ CallerInit /\ PipelineInit

SpecLocate == InitLocate /\ [][LocateNext]_vars

SpecClassify == Init /\ [][ClassifyNext]_vars

SpecRoundTrip == Init /\ [][RoundTripNext]_vars

SpecCallers == Init /\ [][CallerNext]_vars

\* a manager serving one fixed pool
InitPool ==
    /\ FlowInit /\ PoolInit /\ AudioInit /\ LocateStart /\ ClassifyInit
    /\ ClientInit /\ CallerInit /\ PipelineInit

SpecPool == InitPool /\ [][PoolNext]_vars

SpecPipeline == Init /\ [][PipelineNext]_vars

(***************************************************************************)
(* Vocabulary of the claims about the session machine                      *)
(***************************************************************************)
\* the error taxonomy of the responses
ErrorKind(r) ==
    CASE r.status = 404 -> "SessionNotFound"
      [] r.status = 400 /\ r.detail \in
            {"Cannot proceed to next stage from current stage",
             "Voice input not expected at current stage"} -> "InvalidTransition"
      [] r.status = 400 -> "MalformedRequest"
      [] r.status = 500 -> "InternalError"
      [] OTHER -> "none"

\* the last step answered a voice_input that _handle_voice_input handled
AnsweredVoiceInput ==
    /\ resp.action = "voice_input"
    /\ ErrorKind(resp) \notin {"SessionNotFound", "MalformedRequest"}

\* the step serves the request on session sid
VoiceInputOn(sid) ==
    \E u \in UserInputs \ {""}, tts \in BOOLEAN : VoiceInput(sid, u, tts)

NextStageOn(sid) ==
    \E tts \in BOOLEAN, speech \in TTSOutcomes : NextStage(sid, tts, speech)

SameProgress(sid) ==
    /\ sess'[sid].user_input_count = sess[sid].user_input_count
    /\ sess'[sid].user_answers = sess[sid].user_answers
    /\ sess'[sid].stage = sess[sid].stage

(***************************************************************************)
(* C1  In a session that was not restarted, each of the first 6            *)
(* voice_input actions is answered with stage PARAPHRASE and completed     *)
(* false, and the one that brings user_input_count to 7 sets the session's *)
(* stage to FINISHER and is answered with stage FINISHER and completed     *)
(* true.  (Without a restart the n-th voice_input is the one that brings   *)
(* the counter to n.)                                                      *)
(***************************************************************************)
C1_SixParaphrasesThenFinisher ==
    AnsweredVoiceInput =>
        LET n == sess[resp.sid].user_input_count IN
        /\ n < MaxInputs =>
              /\ resp.status = 200
              /\ resp.stage = PARAPHRASE
              /\ resp.completed = FALSE
        /\ n = MaxInputs =>
              /\ sess[resp.sid].stage = FINISHER
              /\ resp.status = 200
              /\ resp.stage = FINISHER
              /\ resp.completed = TRUE

(***************************************************************************)
(* C2  A voice_input or next_stage against a session whose stage is        *)
(* already FINISHER fails with InvalidTransition and leaves the session's  *)
(* turn counter, user answers and stage unchanged.                         *)
(***************************************************************************)
C2_FinisherRejectsActions ==
    [][ \A sid \in SessionIds :
          ( /\ sid \in sessions
            /\ sess[sid].stage = FINISHER
            /\ (VoiceInputOn(sid) \/ NextStageOn(sid)) )
          => /\ resp'.sid = sid
             /\ ErrorKind(resp') = "InvalidTransition"
             /\ SameProgress(sid) ]_flowVars

(***************************************************************************)
(* C3  A restart of an existing session resets user_input_count to 0,      *)
(* learned_expressions and user_answers to empty and stage to STARTER in   *)
(* place, and is answered with that session id, stage STARTER and          *)
(* completed false.                                                        *)
(***************************************************************************)
C3_RestartResetsAndAnswers ==
    (resp.action = "restart" /\ ErrorKind(resp) # "SessionNotFound") =>
        /\ resp.sid \in sessions
        /\ sess[resp.sid].user_input_count = 0
        /\ sess[resp.sid].learned_expressions = <<>>
        /\ sess[resp.sid].user_answers = <<>>
        /\ sess[resp.sid].stage = STARTER
        /\ resp.status = 200
        /\ resp.stage = STARTER
        /\ resp.completed = FALSE

(***************************************************************************)
(* C5  Every voice_input accepted in stage STARTER or PARAPHRASE is        *)
(* answered with a non-empty response_text, whatever the completion and    *)
(* text_to_speech do.                                                      *)
(***************************************************************************)
C5_VoiceInputAlwaysHasText ==
    AnsweredVoiceInput =>
        /\ resp.status = 200
        /\ resp.response_text \notin {"", NoneText}

(***************************************************************************)
(* C6  The only errors the flow endpoint returns are SessionNotFound and   *)
(* InvalidTransition, plus the rejection of a malformed request.           *)
(***************************************************************************)
C6_OnlyDocumentedErrors ==
    resp.action \in {"pick_emotion", "voice_input", "next_stage", "restart"}
        => ErrorKind(resp) \in
              {"none", "SessionNotFound", "InvalidTransition",
               "MalformedRequest"}

(***************************************************************************)
(* C7  Requests for one session are mutually exclusive: while the handler  *)
(* of turn N is in flight no other request is in flight, and the session   *)
(* still holds what that handler wrote: the counter is N, N answers are    *)
(* stored, and the stage is the one the handler set.                       *)
(***************************************************************************)
C7_TurnsDoNotInterleave ==
    \A t \in tasks :
        /\ \A o \in tasks : o = t
        /\ sess[t.sid].user_input_count = t.turn
        /\ Len(sess[t.sid].user_answers) = t.turn
        /\ sess[t.sid].stage = t.path

\* turn 2 or later is being handled, after an earlier turn was logged
C7_Witness ==
    \E t \in tasks :
        /\ t.turn >= 2
        /\ Len(sess[t.sid].conversation_turns) >= 1

(***************************************************************************)
(* C8  voice_input, next_stage, restart, get-session and delete-session    *)
(* on a session id that is not in the session store fail with              *)
(* SessionNotFound and leave the store and every session unchanged.        *)
(***************************************************************************)
C8_UnknownSessionRejected ==
    [][ ( /\ resp'.action \in {"voice_input", "next_stage", "restart",
                               "get_session", "delete_session"}
          /\ resp'.sid \notin sessions )
        => /\ ErrorKind(resp') = "SessionNotFound"
           /\ UNCHANGED <<sessions, sess, stats>> ]_flowVars

\* a request on a deleted session was rejected while another session lives
C8_Witness ==
    /\ ErrorKind(resp) = "SessionNotFound"
    /\ resp.sid \in (1..nextId) \ sessions
    /\ sessions # {}

(***************************************************************************)
(* C9  pick_emotion creates a session under an id that was not in the      *)
(* store, in stage STARTER with turn counter 0, answers with that id,      *)
(* stage STARTER and completed false, and modifies no session that already *)
(* exists.                                                                 *)
(***************************************************************************)
C9_PickEmotionCreatesStarter ==
    [][ ( \E e \in Emotions \ {""}, tts \in BOOLEAN, llm \in TextOutcomes,
             speech \in TTSOutcomes : PickEmotion(e, tts, llm, speech) )
        => /\ resp'.status = 200
           /\ resp'.stage = STARTER
           /\ resp'.completed = FALSE
           /\ resp'.sid \notin sessions
           /\ sessions' = sessions \cup {resp'.sid}
           /\ sess'[resp'.sid].stage = STARTER
           /\ sess'[resp'.sid].user_input_count = 0
           /\ \A o \in SessionIds \ {resp'.sid} : sess'[o] = sess[o]
      ]_flowVars

\* a second session was created beside one that has already taken turns
C9_Witness ==
    /\ resp.action = "pick_emotion"
    /\ resp.status = 200
    /\ \E o \in sessions \ {resp.sid} : sess[o].user_input_count > 0

(***************************************************************************)
(* C10 as stated: user_input_count never decreases from one state to the   *)
(* next, under any action.                                                 *)
(***************************************************************************)
C10_CounterNeverDecreases ==
    [][ \A sid \in SessionIds :
          sess'[sid].user_input_count >= sess[sid].user_input_count
      ]_flowVars

(***************************************************************************)
(* C10 amended: user_input_count decreases in no step other than a         *)
(* restart of that session, which sets it to 0.                            *)
(***************************************************************************)
C10_CounterDecreasesOnlyByRestart ==
    [][ \A sid \in SessionIds :
          \/ sess'[sid].user_input_count >= sess[sid].user_input_count
          \/ /\ Restart(sid)
             /\ sess'[sid].user_input_count = 0
      ]_flowVars

\* a session that had logged a turn was restarted
C10_Witness ==
    /\ resp.action = "restart"
    /\ resp.sid \in sessions
    /\ sess[resp.sid].user_input_count = 0
    /\ Len(sess[resp.sid].conversation_turns) > 0

(***************************************************************************)
(* C4: for every category and every sequence of select_diverse_template    *)
(* calls, two consecutive calls for the same category never return the     *)
(* same template, unless the candidate list of the later call has exactly  *)
(* one element.  `returned` holds what the previous call for the category  *)
(* returned (nothing after reset_history or a call with an empty list).    *)
(***************************************************************************)
C4_NoImmediateRepeat ==
    ( /\ call.templates # <<>>
      /\ ~call.raised
      /\ call.result = call.previous )
    => Len(call.templates) = 1

\* C4 on the five categories the manager keeps a history for: the repeat
\* that is left is the one of the empty template
C4_NoImmediateRepeatInKnownCategory ==
    ( /\ call.category \in KnownCategories
      /\ call.templates # <<>>
      /\ ~call.raised
      /\ call.result = call.previous )
    => Len(call.templates) = 1

\* C4 for the five categories and non-empty templates: what the code keeps
C4_NoImmediateRepeatOfNonEmptyTemplate ==
    ( /\ call.category \in KnownCategories
      /\ call.templates # <<>>
      /\ ~call.raised
      /\ call.result # ""
      /\ call.result = call.previous )
    => Len(call.templates) = 1

\* the previous selection was offered again among two different candidates
\* and the other one was returned
C4_Witness ==
    /\ call.category \in KnownCategories
    /\ Len(call.templates) >= 2
    /\ Truthy(call.previous)
    /\ call.previous \in Range(call.templates)
    /\ ~call.raised
    /\ call.result # call.previous

(***************************************************************************)
(* Vocabulary of the claims about _combine_audio_files                     *)
(***************************************************************************)
\* the non-empty URLs of the latest call, and those of them that decoded
CombinedValid ==
    SelectSeq(combined.audio_urls, LAMBDA u : u # EmptyUrl)

CombinedDecoded ==
    LET at == SelectSeq(Indices(combined.audio_urls),
                  LAMBDA i : /\ combined.audio_urls[i] # EmptyUrl
                             /\ combined.outcome[i] = "decoded")
    IN [k \in DOMAIN at |-> combined.audio_urls[at[k]]]

RECURSIVE DurationSum(_)
DurationSum(urls) ==
    IF urls = <<>> THEN 0
    ELSE AudioMs(Head(urls).hash) + DurationSum(Tail(urls))

RECURSIVE HashesOf(_)
HashesOf(urls) ==
    IF urls = <<>> THEN <<>> ELSE Head(urls).hash \o HashesOf(Tail(urls))

CombineCalled == combined.calls > 0

(***************************************************************************)
(* C11 as stated: for two or more fragment URLs, a fragment whose download *)
(* or decode fails is skipped without aborting the batch, a URL is         *)
(* returned whenever at least one fragment decoded, None is returned when  *)
(* every download/decode fails, and no exception reaches the caller.       *)
(***************************************************************************)
C11_SkipsFailedFragments ==
    (CombineCalled /\ Len(CombinedValid) >= 2) =>
        /\ ~combined.raised
        /\ CombinedDecoded = <<>> => combined.result = NoUrl
        /\ CombinedDecoded # <<>> =>
              /\ combined.result # NoUrl
              /\ combined.result.hash = HashesOf(CombinedDecoded)

(***************************************************************************)
(* C11 amended: for two or more fragment URLs, a fragment whose download   *)
(* or decode fails is skipped without aborting the batch; when at least    *)
(* one fragment decoded and the export and the upload of the combined file *)
(* succeed, the URL of a file holding every decoded fragment in order is   *)
(* returned; None is returned when every download/decode fails or when the *)
(* export or the upload fails; no exception reaches the caller.            *)
(***************************************************************************)
C11_SkipsFailedFragmentsWhenUploaded ==
    (CombineCalled /\ Len(CombinedValid) >= 2) =>
        /\ ~combined.raised
        /\ combined.downloads = Len(CombinedValid)
        /\ CombinedDecoded = <<>> => combined.result = NoUrl
        /\ (CombinedDecoded # <<>> /\ combined.failed = "") =>
              /\ combined.result # NoUrl
              /\ combined.result.hash = HashesOf(CombinedDecoded)
              /\ combined.result \in r2
        /\ combined.failed # "" =>
              /\ combined.result = NoUrl
              /\ r2 = combined.stored_before

\* the first of three fragments failed to download, the second to decode,
\* and the third was uploaded alone
C11_Witness ==
    /\ CombineCalled
    /\ Len(CombinedValid) = 3
    /\ \E i, j \in DOMAIN combined.audio_urls :
          /\ i < j
          /\ combined.audio_urls[i] # EmptyUrl
          /\ combined.outcome[i] = "download_fails"
          /\ combined.audio_urls[j] # EmptyUrl
          /\ combined.outcome[j] = "decode_fails"
    /\ Len(CombinedDecoded) = 1
    /\ combined.result \in r2

(***************************************************************************)
(* C12 as stated: _combine_audio_files([]) returns None; with exactly one  *)
(* non-empty URL it returns that URL without any download or upload; with  *)
(* two or more decoded fragments it returns a new URL whose audio lasts    *)
(* the sum of the fragment durations plus one 500 ms gap between           *)
(* neighbours, and when every fragment of the list decoded that URL is     *)
(* distinct from every input.                                              *)
(***************************************************************************)
C12_CombineCases ==
    CombineCalled =>
        /\ combined.audio_urls = <<>> => combined.result = NoUrl
        /\ Len(CombinedValid) = 1 =>
              /\ combined.result = CombinedValid[1]
              /\ combined.downloads = 0
              /\ r2 = combined.stored_before
        /\ (Len(CombinedValid) >= 2 /\ Len(CombinedDecoded) >= 2) =>
              /\ combined.result # NoUrl
              /\ combined.ms = DurationSum(CombinedDecoded)
                                 + 500 * (Len(CombinedDecoded) - 1)
              /\ CombinedDecoded = CombinedValid =>
                    \A i \in DOMAIN combined.audio_urls :
                       combined.result # combined.audio_urls[i]

(***************************************************************************)
(* C12 amended: as C12, but the new URL is returned only when the export   *)
(* and the upload of the combined file succeed; when either fails the      *)
(* result is None.                                                         *)
(***************************************************************************)
C12_CombineCasesWhenUploaded ==
    CombineCalled =>
        /\ combined.audio_urls = <<>> => combined.result = NoUrl
        /\ Len(CombinedValid) = 1 =>
              /\ combined.result = CombinedValid[1]
              /\ combined.downloads = 0
              /\ r2 = combined.stored_before
        /\ (Len(CombinedValid) >= 2 /\ Len(CombinedDecoded) >= 2) =>
              IF combined.failed = ""
              THEN /\ combined.result # NoUrl
                   /\ combined.ms = DurationSum(CombinedDecoded)
                                      + 500 * (Len(CombinedDecoded) - 1)
                   /\ CombinedDecoded = CombinedValid =>
                         \A i \in DOMAIN combined.audio_urls :
                            combined.result # combined.audio_urls[i]
              ELSE combined.result = NoUrl

\* an earlier combined file and a fragment were combined and uploaded
C12_Witness ==
    /\ CombineCalled
    /\ Len(CombinedDecoded) = 2
    /\ CombinedDecoded[1] = EarlierCombinedUrl
    /\ combined.result \in r2
    /\ combined.ms = 3000 + 500 + FragmentMs(CombinedDecoded[2].hash[1])

(***************************************************************************)
(* C13: the audio locator                                                  *)
(***************************************************************************)
LocateCalled == located.calls > 0

\* the bucket of a call for a response language
LocatedBucket(metadata, loc, lang) ==
    LangSection(metadata, SectionOf(loc.category), loc.from_lang, lang)

\* "from_<source language>" exists below the category of a call
LocatedPathPresent(metadata, loc) ==
    <<SectionOf(loc.category), loc.from_lang>> \in metadata.keys

\* the entry of a bucket at the first of the positions `hits`, its first
\* entry if there is none
FirstOf(bucket, hits) ==
    IF hits = {} THEN bucket[1]
    ELSE bucket[CHOOSE k \in hits : \A j \in hits : k <= j]

\* the positions of a bucket whose file name is the hash of the text
NamedByHash(bucket, text) ==
    { k \in DOMAIN bucket : FileName(bucket[k]) = GetTextHash(text) }

\* the positions of a bucket whose URL contains the hash of the text
ContainingHash(bucket, text) ==
    { k \in DOMAIN bucket : HashInUrl(GetTextHash(text), bucket[k]) }

\* a second call with the arguments of the call before it
RepeatedLocate ==
    /\ located.calls > 0
    /\ located'.calls = located.calls + 1
    /\ located'.text = located.text
    /\ located'.category = located.category
    /\ located'.from_lang = located.from_lang
    /\ located'.to_lang = located.to_lang

ClassifyCalled == classified.calls > 0

\* C14: classifying a user message never raises and returns one member of
\* each of ReactionCategory, EmotionCategory and ContinuationCategory, for
\* every message and every outcome of the LLM call.
C14_ClassificationIsTotal ==
    ClassifyCalled =>
        /\ ~classified.raised
        /\ classified.reaction \in ReactionCategory
        /\ classified.emotion \in EmotionCategory
        /\ classified.continuation \in ContinuationCategory

\* the LLM answered with an object naming no category of any enum
C14_Witness ==
    /\ ClassifyCalled
    /\ classified.outcome = "object"
    /\ classified.parsed.reaction = "bogus"
    /\ classified.parsed.emotion = Null
    /\ classified.parsed.continuation = "HAPPY"
    /\ classified.reaction = "EMPATHY"
    /\ classified.emotion = "HAPPY"
    /\ classified.continuation = "QUESTION_EXPANSION"

(***************************************************************************)
(* C15: the round trip                                                     *)
(***************************************************************************)
RoundTripDone == Len(heard) = MaxInputs

RoundTripCompleted == RoundTripDone => heard[MaxInputs].completed

\* C15: pick_emotion followed by 7 voice_input actions ends with a response
\* that has completed true, and at least one of the 6 responses before it
\* carries target words, whatever the LLM and the TTS do.
C15_RoundTripTeaches ==
    RoundTripDone =>
        /\ heard[MaxInputs].completed
        /\ \E k \in 1..(MaxInputs - 1) : heard[k].target_words # << >>

(***************************************************************************)
(* C16: the conversation log and updated_at                                *)
(***************************************************************************)
\* this step serves a pick_emotion, next_stage or restart request on
\* session sid, from the request to its response
ServesInOneStep(sid) ==
    /\ clock' = clock + 1
    /\ resp'.sid = sid /\ sid \in sessions'
    /\ resp'.action \in {"pick_emotion", "next_stage", "restart"}

\* this step sends the response of a voice_input turn on session sid
AnswersVoiceInput(sid) ==
    /\ clock' = clock
    /\ resp'.sid = sid /\ resp'.action = "voice_input"
    /\ resp'.status = 200

TurnsLogged(s) == Len(s.conversation_turns)

\* updated_at of the session is set by the request being served
UpdatedAtIsSet ==
    [][ \A sid \in SessionIds :
           (ServesInOneStep(sid) \/ AnswersVoiceInput(sid)) => updated' = sid
      ]_vars

\* C16: every transition of a session (pick_emotion, voice_input,
\* next_stage, restart) appends an entry to the conversation log of the
\* session and sets its updated_at.
C16_EveryTransitionIsLogged ==
    [][ \A sid \in SessionIds :
           /\ ServesInOneStep(sid) =>
                 /\ TurnsLogged(sess'[sid]) = TurnsLogged(sess[sid]) + 1
                 /\ updated' = sid
           /\ AnswersVoiceInput(sid) =>
                 /\ TurnsLogged(sess'[sid]) > 0
                 /\ updated' = sid ]_vars

(***************************************************************************)
(* C19: the usage weights                                                  *)
(***************************************************************************)
\* the lists the weighted step can be given: two candidates or more
CandidateLists == { available \in TemplateLists : Len(available) > 1 }

\* the largest element of a non-empty set of numbers
Largest(S) == CHOOSE m \in S : \A n \in S : n <= m

UsageOf(x) == usage_count[x]

\* a template never used counts as used once
ClampedUsageOf(x) == IF usage_count[x] = 0 THEN 1 ELSE usage_count[x]

LargestUsage(available) ==
    Largest({ UsageOf(available[i]) : i \in DOMAIN available })

LargestClampedUsage(available) ==
    Largest({ ClampedUsageOf(available[i]) : i \in DOMAIN available })

\* C19 (as stated): the weight of a candidate is (largest usage count among
\* the candidates) - (its usage count) + 1, also for a usage count of 0;
\* every weight is at least 1 and a less-used candidate has a strictly
\* higher weight than a more-used one.
C19_WeightIsMaxMinusUsagePlusOne ==
    \A available \in CandidateLists :
        LET w == UsageWeights(available) IN
        \A i \in DOMAIN available :
            /\ w[i] = LargestUsage(available)
                          - UsageOf(available[i]) + 1
            /\ w[i] >= 1
            /\ \A j \in DOMAIN available :
                  UsageOf(available[i]) < UsageOf(available[j]) => w[i] > w[j]

\* C19 (amended): the weight is computed on usage counts in which 0 counts
\* as 1; every weight is at least 1; a less-used candidate has a weight at
\* least as high as a more-used one, strictly higher unless the two counts
\* are 0 and 1.
C19_WeightIsMaxMinusClampedUsagePlusOne ==
    \A available \in CandidateLists :
        LET w == UsageWeights(available) IN
        \A i \in DOMAIN available :
            /\ w[i] = LargestClampedUsage(available)
                          - ClampedUsageOf(available[i]) + 1
            /\ w[i] >= 1
            /\ \A j \in DOMAIN available :
                  UsageOf(available[i]) < UsageOf(available[j]) =>
                      /\ w[i] >= w[j]
                      /\ UsageOf(available[j]) > 1 => w[i] > w[j]

\* a candidate never used next to one used once and one used twice
C19_Witness ==
    /\ usage_count[""] = 0 /\ usage_count["a"] = 1 /\ usage_count["b"] = 2
    /\ UsageWeights(<<"", "a", "b">>) = <<2, 2, 1>>
    /\ call.result = "b"

(***************************************************************************)
(* C20: the recency queues                                                 *)
(***************************************************************************)
\* the last n elements of a sequence
LastOf(q, n) == IF Len(q) <= n THEN q ELSE SubSeq(q, Len(q) - n + 1, Len(q))

\* this step is a selection that was recorded
SelectionRecorded == Selections' = Selections + 1

\* queues, usage counts and last-selected pointers are all empty
HistoryIsEmpty(queues, counts, pointers) ==
    /\ \A c \in KnownCategories : queues[c] = << >> /\ pointers[c] = NoTemplate
    /\ \A x \in Templates : counts[x] = 0

\* C20: each recency queue holds at most max_history_size entries, the most
\* recent selections of its category in selection order, the oldest dropped
\* first; reset leaves every queue, usage count and last-selected pointer
\* empty.
C20_QueuesHoldTheMostRecentSelections ==
    [][ /\ \A c \in KnownCategories : Len(recent'[c]) <= max_history_size
        /\ SelectionRecorded =>
              \A c \in KnownCategories :
                  recent'[c] =
                      IF c = call'.category
                      THEN LastOf(recent[c] \o <<call'.result>>,
                                  max_history_size)
                      ELSE recent[c]
        /\ ~SelectionRecorded =>
              \/ recent' = recent /\ usage_count' = usage_count /\ last' = last
              \/ HistoryIsEmpty(recent', usage_count', last') ]_vars

\* a queue that has dropped its oldest entry, "a"
C20_Witness ==
    /\ recent["reaction"] = <<"b", "">>
    /\ usage_count["a"] = 1 /\ usage_count["b"] = 1 /\ usage_count[""] = 1
    /\ recent["greeting"] = << >>
    /\ returned["other"] = NoTemplate
    /\ last["reaction"] = ""

(***************************************************************************)
(* C18: selections from a fixed pool                                       *)
(***************************************************************************)
\* the longest run of selections a template of the pool has gone without
IdleBound == max_history_size + Len(pool) - 1

\* C18: over repeated selections from a fixed pool of K distinct templates
\* of one category, 2 <= K <= max_history_size = C, no template goes
\* unselected for more than C + K - 1 consecutive selections, whatever the
\* random draws return.
C18_NoTemplateStarves ==
    \A x \in Range(pool) : idle[x] <= IdleBound

\* three templates, deques of three: a template has waited three selections
C18_Witness ==
    /\ Len(pool) = 3 /\ max_history_size = 3
    /\ Selections > Len(pool)
    /\ \E x \in Range(pool) : idle[x] = 3

(***************************************************************************)
(* C17: concurrent selections                                              *)
(***************************************************************************)
NoCallInProgress == \A s \in Callers : inflight[s].pc = "idle"

AxisResult(members, given, default) ==
    IF given \in members THEN given ELSE default

\* C21: when the LLM answers with a JSON object, an axis whose name is
\* missing or unrecognized takes its default (EMPATHY, HAPPY,
\* QUESTION_EXPANSION) and the other axes keep the names the LLM gave; the
\* rule-based fallback answers only when the call raises or no JSON object
\* can be read from the content.
C21_DefaultsAreTakenAxisByAxis ==
    ClassifyCalled =>
        /\ classified.outcome = "object" =>
              /\ classified.reaction =
                    AxisResult(ReactionCategory, classified.parsed.reaction,
                               "EMPATHY")
              /\ classified.emotion =
                    AxisResult(EmotionCategory, classified.parsed.emotion,
                               "HAPPY")
              /\ classified.continuation =
                    AxisResult(ContinuationCategory,
                               classified.parsed.continuation,
                               "QUESTION_EXPANSION")
        /\ classified.outcome # "object" =>
              /\ classified.outcome \in
                    {"raises", "content_none", "content_empty", "unparseable",
                     "not_an_object"}
              /\ <<classified.reaction, classified.emotion,
                   classified.continuation>>
                     \in FallbackCategorySelection(classified.message)

\* an unknown emotion next to a reaction and a continuation that are kept,
\* for a message the fallback would have classified otherwise
C21_Witness ==
    /\ ClassifyCalled
    /\ classified.outcome = "object"
    /\ classified.parsed.reaction \in ReactionCategory \ {"EMPATHY"}
    /\ classified.reaction = classified.parsed.reaction
    /\ classified.parsed.emotion = "bogus"
    /\ classified.emotion = "HAPPY"
    /\ classified.parsed.continuation = "EMOTION_ACTION"
    /\ classified.continuation = "EMOTION_ACTION"
    /\ classified.message.short

(***************************************************************************)
(* C22: short messages in the rule-based fallback                          *)
(***************************************************************************)
\* the last classification was made by the rule-based fallback
ClassifiedByFallback ==
    /\ ClassifyCalled
    /\ classified.outcome # "object"
    /\ ~classified.raised

\* C22 as stated: in the rule-based fallback every message shorter than 10
\* characters is SLOW_QUESTIONING on the reaction axis whatever its words,
\* and a message of 10 or more characters that matches no lexicon is EMPATHY.
C22_ShortMessagesAreSlowQuestioning ==
    ClassifiedByFallback =>
        /\ classified.message.short =>
              classified.reaction = "SLOW_QUESTIONING"
        /\ (~classified.message.short
              /\ classified.message.reaction_hit = NoKeyword) =>
              classified.reaction = "EMPATHY"

\* C22 amended: in the rule-based fallback a message that contains a keyword
\* of a reaction lexicon is classified by the first lexicon it matches,
\* whatever its length; a message that matches no lexicon is SLOW_QUESTIONING
\* when shorter than 10 characters and EMPATHY otherwise.
C22_KeywordsPrecedeLength ==
    ClassifiedByFallback =>
        /\ classified.message.reaction_hit # NoKeyword =>
              classified.reaction = classified.message.reaction_hit
        /\ (classified.message.short
              /\ classified.message.reaction_hit = NoKeyword) =>
              classified.reaction = "SLOW_QUESTIONING"
        /\ (~classified.message.short
              /\ classified.message.reaction_hit = NoKeyword) =>
              classified.reaction = "EMPATHY"

\* a short message with a pain word, such as "sad", answered with COMFORT
C22_Witness ==
    /\ ClassifiedByFallback
    /\ classified.message.short
    /\ classified.message.reaction_hit = "COMFORT"
    /\ classified.reaction = "COMFORT"

(***************************************************************************)
(* C27: select_diverse_template on lists with duplicates                   *)
(***************************************************************************)
\* C27: for any non-empty candidate list, duplicates included, any category
\* and any history, select_diverse_template returns an element of the list
\* and does not raise.
C27_SelectReturnsAnElementOfTheList ==
    call.templates # <<>> =>
        /\ ~call.raised
        /\ call.result \in Range(call.templates)

(***************************************************************************)
(* C25: stage and turn counter agree                                       *)
(***************************************************************************)
\* C25: in every reachable state of every session, STARTER implies
\* user_input_count = 0, PARAPHRASE implies 1 <= user_input_count <= 6,
\* FINISHER implies user_input_count >= 7, and no other stage is ever
\* stored, so that a voice_input always finds a stage it is expected at.
C25_StageAgreesWithCounter ==
    \A sid \in sessions :
        LET s == sess[sid] IN
        /\ s.stage \in {STARTER, PARAPHRASE, FINISHER}
        /\ s.stage = STARTER => s.user_input_count = 0
        /\ s.stage = PARAPHRASE =>
              /\ 1 <= s.user_input_count
              /\ s.user_input_count <= MaxInputs - 1
        /\ s.stage = FINISHER => s.user_input_count >= MaxInputs
        /\ ReachedMax(AcceptInput(s, "u")) \/ ExpectsVoiceInput(s)

\* a session that went on after its completion: an eighth input, still
\* FINISHER
C25_Witness ==
    \E sid \in sessions :
        /\ sess[sid].stage = FINISHER
        /\ sess[sid].user_input_count = MaxInputs + 1

(***************************************************************************)
(* C26: one stored answer per counted input                                *)
(***************************************************************************)
\* C26: len(user_answers) = user_input_count in every reachable state, over
\* any sequence of voice_input, next_stage and restart.
C26_OneAnswerPerCountedInput ==
    \A sid \in sessions :
        Len(sess[sid].user_answers) = sess[sid].user_input_count

\* a session restarted after it logged a turn, and a session with answers
C26_Witness ==
    /\ \E sid \in sessions :
          /\ sess[sid].conversation_turns # <<>>
          /\ sess[sid].user_input_count = 0
          /\ sess[sid].user_answers = <<>>
    /\ \E sid \in sessions :
          /\ sess[sid].user_input_count >= 2
          /\ Len(sess[sid].user_answers) = sess[sid].user_input_count

(***************************************************************************)
(* C28: a session is counted once in the daily statistics                  *)
(***************************************************************************)
\* the entries a session has in the daily statistics
StatsEntriesOf(sid) == {i \in DOMAIN stats : stats[i].session_id = sid}

\* C28: each session is added to the daily statistics at most once over its
\* lifetime, as completed when it reaches FINISHER or as abandoned when it
\* is deleted in progress, under any sequence of voice_input, restart and
\* delete.
C28_SessionIsCountedAtMostOnce ==
    \A sid \in SessionIds : Cardinality(StatsEntriesOf(sid)) <= 1

(***************************************************************************)
(* C30: what next_stage, get-session and a rejected voice_input leave      *)
(* alone                                                                   *)
(***************************************************************************)
\* the four fields the claim is about
TurnFields(s) ==
    <<s.user_input_count, s.user_answers, s.stage, s.learned_expressions>>

\* a step of next_stage, of get-session, or of a voice_input rejected for
\* its missing or empty user_input
LeavesTurnFieldsAlone ==
    \/ \E sid \in RequestIds, tts \in BOOLEAN, speech \in TTSOutcomes :
          NextStage(sid, tts, speech)
    \/ \E sid \in RequestIds : GetSession(sid)
    \/ \E sid \in RequestIds, tts \in BOOLEAN : VoiceInput(sid, "", tts)

\* C30: next_stage in any stage, get-session and a voice_input rejected
\* because user_input is missing or empty leave user_input_count,
\* user_answers, stage and learned_expressions of every session unchanged.
C30_OnlyTurnsAndRestartChangeTheTurnFields ==
    [][ LeavesTurnFieldsAlone =>
          \A sid \in SessionIds : TurnFields(sess'[sid]) = TurnFields(sess[sid])
      ]_flowVars

\* next_stage answered on a session that holds answers and expressions
C30_Witness ==
    /\ resp.action = "next_stage"
    /\ resp.status = 200
    /\ resp.sid \in sessions
    /\ sess[resp.sid].stage = PARAPHRASE
    /\ sess[resp.sid].user_input_count >= 2
    /\ sess[resp.sid].learned_expressions # <<>>
    /\ resp.target_words = sess[resp.sid].learned_expressions

(***************************************************************************)
(* C24: the temporary files of _combine_audio_files                        *)
(***************************************************************************)
\* C24: on every exit path of _combine_audio_files (early return, all
\* fragments failed, decode or export exception, upload failure, success)
\* every temporary file created during the call, the per-fragment downloads
\* and the combined encoded file, has been deleted when the call returns.
C24_NoTemporaryFileIsLeft ==
    combined.calls > 0 => combined.temp_left = {}

(***************************************************************************)
(* C23: a fragment that was generated is the one that is found             *)
(***************************************************************************)
\* the fragments generated for the text and bucket a lookup names
FragmentsFor(lookup) ==
    { f \in fragments :
         /\ f.text = lookup.text
         /\ f.section = SectionOf(lookup.category)
         /\ f.from_lang = pipeline.user_language
         /\ f.to_lang = pipeline.ai_language }

\* C23: for every template text for which the generation produced and
\* indexed a fragment, the lookup a response pipeline makes for that
\* template with the same category and language pair returns the URL of
\* that fragment, never the soft-fallback URL of another text.
C23_GeneratedFragmentIsTheOneFound ==
    \A k \in DOMAIN pipeline.lookups :
        \A f \in FragmentsFor(pipeline.lookups[k]) :
            pipeline.lookups[k].result = f.url

(***************************************************************************)
(* C29: the audio of a templated response                                  *)
(***************************************************************************)
TemplatedResponseGiven == pipeline.kind = "templated"

\* C29: generate_templated_chat_response does not raise and returns a
\* non-empty text; its audio_url is None only when no fragment URL was
\* located or an exception occurred, and when fragments were located but
\* combining them returns None it is the first located fragment URL.
C29_TemplatedResponseKeepsAnAudio ==
    TemplatedResponseGiven =>
        LET valid_audio_urls == ValidAudioUrls(pipeline.lookups) IN
        /\ ~pipeline.raised
        /\ pipeline.response # << >>
        /\ pipeline.audio_url = NotLocated =>
              \/ valid_audio_urls = << >>
              \/ pipeline.excepted
        /\ ( /\ ~pipeline.excepted
             /\ Len(valid_audio_urls) > 1
             /\ pipeline.combine_result = "none" ) =>
              pipeline.audio_url = valid_audio_urls[1]

\* two fragments were located, combining them returned None, and the
\* response carries the first one
C29_Witness ==
    /\ TemplatedResponseGiven
    /\ ~pipeline.excepted
    /\ Len(ValidAudioUrls(pipeline.lookups)) = 2
    /\ pipeline.combine_result = "none"
    /\ pipeline.audio_url = pipeline.lookups[1].result
    /\ pipeline.audio_url # NotLocated

=============================================================================
